---- MODULE Spec2Model ----
(***************************************************************************)
(* Client-side persistence of the cake-shop pages: the storage adapter of  *)
(* the order-entry page (IndexedDB with a localStorage fallback), the      *)
(* storage helpers of the deliveries page, the page initialisation that    *)
(* migrates localStorage data into IndexedDB, and the BroadcastChannel     *)
(* 'cake_sync' that tells the deliveries page to re-read.                   *)
(***************************************************************************)
EXTENDS Integers, Sequences, FiniteSets, TLC

VARIABLES
  isBrowser,      \* typeof window !== 'undefined'
  hasIndexedDB,   \* isBrowser && typeof window.indexedDB !== 'undefined'
  hasBC,          \* 'BroadcastChannel' in window
  dbPromise,      \* per page module: the memoised open of 'cakeDB'
  idb,            \* the object stores of 'cakeDB': store name -> set of records
  ls,             \* localStorage items cakeFlavors / cakeClients / cakeOrders
  inbox,          \* 'cake_sync' messages queued for the deliveries page's subscriber
  twin,           \* the second run of the two-backend comparison (localStorage run)
  home,           \* state of the order-entry page (Home component)
  deliv,          \* state of the deliveries page (DeliveriesDashboard component)
  last,           \* what the most recent call did and returned
  nops            \* number of calls made so far

vars == <<isBrowser, hasIndexedDB, hasBC, dbPromise, idb, ls, inbox, twin, home, deliv, last, nops>>

(***************************************************************************)
(* Bounds                                                                  *)
(***************************************************************************)
MaxOps == 2
MaxLoads == 2
MaxVisible == 1
MaxUpgrades == 3
MaxEvents == 3

(***************************************************************************)
(* Record kinds and records                                                *)
(***************************************************************************)
Undefined == "undefined"
\* A localStorage item: raw says what getItem returns ("null": no item,
\* "array": the JSON text of an array, "nonarray": the JSON text of another
\* value, "corrupt": text JSON.parse throws on), items the array it parses to.
NoItem == [raw |-> "null", items |-> <<>>]
ArrayItem(items) == [raw |-> "array", items |-> items]

StoreName == {"flavors", "clients", "orders"}

\* A variant of lsKeys in which two kinds share a key.
lsKeysShared == [flavors |-> "cakeFlavors", clients |-> "cakeFlavors", orders |-> "cakeOrders"]

lsKeys == [flavors |-> "cakeFlavors", clients |-> "cakeClients", orders |-> "cakeOrders"]

FlavorNames == {"Chocolate", "chocolate"}
Prices == {"50", "99"}
Flavor == [name : FlavorNames, pricePerKg : Prices]

ClientIds == {"c1", "c2"}
Client == [id : ClientIds, name : {"Ana"}, phone : {"11"}]

OrderIds == {"o1", "o2"}
OrderStatus == {"pending", "confirmed"}
Dates == {"d1"}
OrderTypeOf(id) == IF id = "o1" THEN "custom" ELSE "ready"
ClientOf(id) == IF id = "o1" THEN "c1" ELSE Undefined
\* Order objects as the pages build them: optional members are present with
\* the value undefined (saveOrder writes `deliveryDate: ... : undefined`).
Order ==
  { [id |-> i, type |-> OrderTypeOf(i), clientId |-> ClientOf(i), deliveryDate |-> d, status |-> s] :
      i \in OrderIds, d \in Dates \cup {Undefined}, s \in OrderStatus }

defaultFlavors ==
  <<[name |-> "Chocolate", pricePerKg |-> "50"], [name |-> "Baunilha", pricePerKg |-> "45"],
    [name |-> "Morango", pricePerKg |-> "55"], [name |-> "Limao", pricePerKg |-> "40"]>>

StoreMap(store) ==
  IF store = "flavors" THEN Flavor ELSE IF store = "clients" THEN Client ELSE Order

Keys(store) ==
  IF store = "flavors" THEN FlavorNames ELSE IF store = "clients" THEN ClientIds ELSE OrderIds

\* Reading a member of an object: a missing member reads as undefined.
Field(item, f) == IF f \in DOMAIN item THEN item[f] ELSE Undefined

\* Two objects a caller cannot tell apart by reading members.
SameRecord(a, b) ==
  \A f \in (DOMAIN a) \cup (DOMAIN b) : Field(a, f) = Field(b, f)

\* JSON.stringify of an object drops the members whose value is undefined;
\* JSON.parse gives back the remaining members.
JSONRecord(item) == [f \in {g \in DOMAIN item : item[g] # Undefined} |-> item[f]]
JSONArray(items) == [i \in 1..Len(items) |-> JSONRecord(items[i])]

\* String.prototype.toLowerCase on the flavor names of the model.
toLowerCase(name) == IF name = "Chocolate" THEN "chocolate" ELSE name

\* A variant of getKeyValue that folds the case of a flavor name.
getKeyValueFolded(store, item) ==
  IF store = "flavors" THEN toLowerCase(Field(item, "name"))
  ELSE IF store = "clients" THEN Field(item, "id")
  ELSE Field(item, "id")

getKeyValue(store, item) ==
  IF store = "flavors" THEN Field(item, "name")
  ELSE IF store = "clients" THEN Field(item, "id")
  ELSE Field(item, "id")

\* Key order of an object store (code-unit order of the key strings).
KeyOrder == <<"Baunilha", "Chocolate", "Limao", "Morango", "c1", "c2", "chocolate", "o1", "o2">>
Rank(k) == CHOOSE i \in 1..Len(KeyOrder) : KeyOrder[i] = k

RECURSIVE SortedByKey(_, _)
SortedByKey(store, recs) ==
  IF recs = {} THEN <<>>
  ELSE LET r == CHOOSE x \in recs :
                  \A y \in recs : Rank(getKeyValue(store, x)) <= Rank(getKeyValue(store, y))
       IN <<r>> \o SortedByKey(store, recs \ {r})

Range(s) == {s[i] : i \in 1..Len(s)}

\* The arrays of at most two elements of S.
Arrays(S) == {<<>>} \cup {<<x>> : x \in S} \cup {<<x, y>> : x \in S, y \in S}

(***************************************************************************)
(* IndexedDB helpers.  S is the part of the world a call sees:             *)
(*   [isBrowser, hasIndexedDB, db (this page's dbPromise), idb, ls].       *)
(* Every helper returns the new db / idb / ls, whether the returned        *)
(* promise fulfilled (ok) and the value it fulfilled with (ret).           *)
(***************************************************************************)
DbStates == {"null", "pending", "resolved", "rejected"}

\* getDB: throws without IndexedDB; otherwise returns the memoised promise,
\* creating it on first use.  openOk: the open request fires onsuccess
\* (TRUE) or onerror (FALSE).
getDB(S, openOk) ==
  IF ~S.hasIndexedDB THEN [db |-> S.db, ok |-> FALSE]
  ELSE IF S.db # "null" THEN [db |-> S.db, ok |-> S.db = "resolved"]
  ELSE IF openOk THEN [db |-> "resolved", ok |-> TRUE]
  ELSE [db |-> "rejected", ok |-> FALSE]

\* IDBObjectStore.put on a store with a keyPath: insert, or replace the
\* record that has the same key.
objectStorePut(store, recs, value) ==
  {r \in recs : getKeyValue(store, r) # getKeyValue(store, value)} \cup {value}

RECURSIVE objectStorePutAll(_, _, _)
objectStorePutAll(store, recs, values) ==
  IF values = <<>> THEN recs
  ELSE objectStorePutAll(store, objectStorePut(store, recs, Head(values)), Tail(values))

objectStoreDelete(store, recs, key) == {r \in recs : getKeyValue(store, r) # key}

\* fault: the request / transaction fires onerror or onabort.
idbGetAll(S, store, openOk, fault) ==
  LET g == getDB(S, openOk)
      ok == g.ok /\ ~fault
  IN [db |-> g.db, idb |-> S.idb, ls |-> S.ls, ok |-> ok,
      ret |-> IF ok THEN SortedByKey(store, S.idb[store]) ELSE <<>>]

\* A variant of idbBulkPut: a failed transaction keeps its first put.
idbBulkPutPartial(S, store, values, openOk, fault) ==
  LET g == getDB(S, openOk)
      ok == g.ok /\ ~fault
  IN [db |-> g.db,
      idb |-> IF ok THEN [S.idb EXCEPT ![store] = objectStorePutAll(store, @, values)]
              ELSE IF g.ok /\ values # <<>>
              THEN [S.idb EXCEPT ![store] = objectStorePut(store, @, values[1])]
              ELSE S.idb,
      ls |-> S.ls, ok |-> ok, ret |-> <<>>]

idbBulkPut(S, store, values, openOk, fault) ==
  LET g == getDB(S, openOk)
      ok == g.ok /\ ~fault
  IN [db |-> g.db,
      idb |-> IF ok THEN [S.idb EXCEPT ![store] = objectStorePutAll(store, @, values)] ELSE S.idb,
      ls |-> S.ls, ok |-> ok, ret |-> <<>>]

idbPut(S, store, value, openOk, fault) ==
  LET g == getDB(S, openOk)
      ok == g.ok /\ ~fault
  IN [db |-> g.db,
      idb |-> IF ok THEN [S.idb EXCEPT ![store] = objectStorePut(store, @, value)] ELSE S.idb,
      ls |-> S.ls, ok |-> ok, ret |-> <<>>]

idbDelete(S, store, key, openOk, fault) ==
  LET g == getDB(S, openOk)
      ok == g.ok /\ ~fault
  IN [db |-> g.db,
      idb |-> IF ok THEN [S.idb EXCEPT ![store] = objectStoreDelete(store, @, key)] ELSE S.idb,
      ls |-> S.ls, ok |-> ok, ret |-> <<>>]

(***************************************************************************)
(* localStorage fallback                                                   *)
(***************************************************************************)
\* window.localStorage.getItem(key)
getItem(items, key) == items[key]

\* A variant of readFromLocalStorage without the Array.isArray test.
readFromLocalStorageUnchecked(S, store) ==
  IF ~S.isBrowser THEN <<>>
  ELSE LET raw == getItem(S.ls, lsKeys[store])
       IN IF raw.raw = "null" THEN <<>>
          ELSE IF raw.raw \in {"array", "nonarray"} THEN raw.items
          ELSE <<>>

readFromLocalStorage(S, store) ==
  IF ~S.isBrowser THEN <<>>
  ELSE LET raw == getItem(S.ls, lsKeys[store])
       IN IF raw.raw = "null" THEN <<>>
          ELSE IF raw.raw = "array" THEN raw.items
          ELSE <<>>

\* A variant of findIndex: the first element matches whatever its key.
findIndexFirst(store, current, key) == IF current = <<>> THEN 0 ELSE 1

\* current.findIndex(x => key(x) === key(value)); 0 stands for -1.
findIndex(store, current, key) ==
  IF \E i \in 1..Len(current) : getKeyValue(store, current[i]) = key
  THEN CHOOSE i \in 1..Len(current) :
         /\ getKeyValue(store, current[i]) = key
         /\ \A j \in 1..(i - 1) : getKeyValue(store, current[j]) # key
  ELSE 0

\* A variant of upsertArray: the value is pushed without looking for its key.
pushArray(store, current, value) == Append(current, value)

\* The replace-or-push part of the fallback put.
upsertArray(store, current, value) ==
  LET idx == findIndex(store, current, getKeyValue(store, value))
  IN IF idx > 0 THEN [current EXCEPT ![idx] = value] ELSE Append(current, value)

\* A variant of filterArray: the predicate is inverted.
filterArrayInverted(store, current, key) ==
  SelectSeq(current, LAMBDA x : getKeyValue(store, x) = key)

\* current.filter(x => key(x) !== key).
filterArray(store, current, key) ==
  SelectSeq(current, LAMBDA x : getKeyValue(store, x) # key)

\* window.localStorage.setItem(lsKeys[store], JSON.stringify(items)).
\* fault: setItem throws (quota, storage disabled), so the call rejects.
setItem(S, store, items, fault) ==
  [db |-> S.db, idb |-> S.idb,
   ls |-> IF fault THEN S.ls ELSE [S.ls EXCEPT ![lsKeys[store]] = ArrayItem(JSONArray(items))],
   ok |-> ~fault, ret |-> <<>>]

Returns(S, ret) == [db |-> S.db, idb |-> S.idb, ls |-> S.ls, ok |-> TRUE, ret |-> ret]

(***************************************************************************)
(* The storage adapter of the order-entry page                             *)
(***************************************************************************)
storage_getAll(S, store, openOk, fault) ==
  IF S.hasIndexedDB THEN idbGetAll(S, store, openOk, fault)
  ELSE Returns(S, readFromLocalStorage(S, store))

storage_bulkPut(S, store, values, openOk, fault) ==
  IF S.hasIndexedDB THEN idbBulkPut(S, store, values, openOk, fault)
  ELSE IF ~S.isBrowser THEN Returns(S, <<>>)
  ELSE setItem(S, store, values, fault)

\* A variant of storage.put without the `if (!isBrowser) return`.
storage_putUnguarded(S, store, value, openOk, fault) ==
  IF S.hasIndexedDB THEN idbPut(S, store, value, openOk, fault)
  ELSE setItem(S, store, upsertArray(store, S.ls[lsKeys[store]].items, value), fault)

storage_put(S, store, value, openOk, fault) ==
  IF S.hasIndexedDB THEN idbPut(S, store, value, openOk, fault)
  ELSE IF ~S.isBrowser THEN Returns(S, <<>>)
  ELSE setItem(S, store, upsertArray(store, readFromLocalStorage(S, store), value), fault)

storage_delete(S, store, key, openOk, fault) ==
  IF S.hasIndexedDB THEN idbDelete(S, store, key, openOk, fault)
  ELSE IF ~S.isBrowser THEN Returns(S, <<>>)
  ELSE setItem(S, store, filterArray(store, readFromLocalStorage(S, store), key), fault)

(***************************************************************************)
(* The storage helpers of the deliveries page (store 'orders' only).  The  *)
(* result says in `posted` whether an 'orders_changed' message went out on *)
(* the 'cake_sync' channel.  bc: BroadcastChannel is in window; bcThrows:  *)
(* constructing the channel or posting on it throws.                       *)
(***************************************************************************)
WithPosted(r, posted) ==
  [db |-> r.db, idb |-> r.idb, ls |-> r.ls, ok |-> r.ok, ret |-> r.ret, posted |-> posted]

\* try { if ('BroadcastChannel' in window) { new BroadcastChannel(..).postMessage(..) } } catch {}
postMessage(bc, bcThrows) == bc /\ ~bcThrows

storageGetAll(S, openOk, fault) ==
  IF S.hasIndexedDB THEN WithPosted(idbGetAll(S, "orders", openOk, fault), FALSE)
  ELSE WithPosted(Returns(S, readFromLocalStorage(S, "orders")), FALSE)

\* A variant of storagePut that publishes whether or not the write worked.
storagePutPublishing(S, value, openOk, fault, bc, bcThrows) ==
  IF S.hasIndexedDB THEN WithPosted(idbPut(S, "orders", value, openOk, fault), FALSE)
  ELSE IF ~S.isBrowser THEN WithPosted(Returns(S, <<>>), FALSE)
  ELSE LET w == setItem(S, "orders",
                        upsertArray("orders", readFromLocalStorage(S, "orders"), value), fault)
       IN WithPosted(w, postMessage(bc, bcThrows))

storagePut(S, value, openOk, fault, bc, bcThrows) ==
  IF S.hasIndexedDB THEN WithPosted(idbPut(S, "orders", value, openOk, fault), FALSE)
  ELSE IF ~S.isBrowser THEN WithPosted(Returns(S, <<>>), FALSE)
  ELSE LET w == setItem(S, "orders",
                        upsertArray("orders", readFromLocalStorage(S, "orders"), value), fault)
       IN WithPosted(w, w.ok /\ postMessage(bc, bcThrows))

storageDelete(S, key, openOk, fault, bc, bcThrows) ==
  IF S.hasIndexedDB THEN WithPosted(idbDelete(S, "orders", key, openOk, fault), FALSE)
  ELSE IF ~S.isBrowser THEN WithPosted(Returns(S, <<>>), FALSE)
  ELSE LET w == setItem(S, "orders",
                        filterArray("orders", readFromLocalStorage(S, "orders"), key), fault)
       IN WithPosted(w, w.ok /\ postMessage(bc, bcThrows))

(***************************************************************************)
(* Calls on the storage adapter (specification Spec)                       *)
(***************************************************************************)
World(page) ==
  [isBrowser |-> isBrowser, hasIndexedDB |-> hasIndexedDB, db |-> dbPromise[page],
   idb |-> idb, ls |-> ls]

\* What getAll(store) would show: the collection of the backend in use.
Collection(S, store) ==
  IF S.hasIndexedDB THEN SortedByKey(store, S.idb[store]) ELSE readFromLocalStorage(S, store)

\* The records the calls are made with.
Records(store) ==
  IF store = "orders" THEN {o \in Order : o.status = "pending"} ELSE StoreMap(store)

\* The outcomes the open request can have when this call is the one that opens.
OpenOutcomes(S) == IF S.hasIndexedDB /\ S.db = "null" THEN BOOLEAN ELSE {TRUE}

NoCall ==
  [page |-> "none", op |-> "none", store |-> "none", key |-> "none", values |-> <<>>,
   ok |-> TRUE, ret |-> <<>>, fault |-> FALSE, again |-> FALSE, posted |-> FALSE,
   bcThrows |-> FALSE, err |-> "none"]

\* The record of a finished call; again: it repeats the call before it, and
\* both fulfilled; err: what the promise was rejected with, where the
\* specification follows it.
Call(page, op, store, key, values, r, fault, posted) ==
  [page |-> page, op |-> op, store |-> store, key |-> key, values |-> values,
   ok |-> r.ok, ret |-> r.ret, fault |-> fault,
   again |-> /\ r.ok /\ last.ok /\ last.page = page /\ last.op = op
             /\ last.store = store /\ last.key = key /\ last.values = values,
   posted |-> posted, bcThrows |-> FALSE, err |-> "none"]

\* What a rejected adapter call is rejected with.  engineError: the engine
\* gives an error object (request.error, req.error, tx.error is not null),
\* and `reject(x.error ?? new Error(...))` passes it on; otherwise the
\* caller gets the helper's own Error, named here by the failure kind its
\* message stands for.  On localStorage the only failure is setItem
\* throwing, and the adapter does not catch it.
DomainFailures == {"EngineUnavailable", "TransactionFailed", "CorruptPayload"}
rejection(S, r, engineError) ==
  IF r.ok THEN "none"
  ELSE IF ~S.hasIndexedDB THEN "DOMException"
  ELSE IF engineError THEN "DOMException"
  ELSE IF r.db = "rejected" THEN "EngineUnavailable"
  ELSE "TransactionFailed"

\* The engine gives an error object or not, when the call is rejected.
ErrorObjects(r) == IF r.ok THEN {FALSE} ELSE BOOLEAN

\* The effect of a finished adapter call r of the given page on the shared state.
Commit(page, r) ==
  /\ dbPromise' = [dbPromise EXCEPT ![page] = r.db]
  /\ idb' = r.idb
  /\ ls' = r.ls
  /\ nops' = nops + 1

EmptyIdb == [s \in StoreName |-> {}]
LsKeyNames == {"cakeFlavors", "cakeClients", "cakeOrders"}
StoreOfKey(k) ==
  IF k = "cakeFlavors" THEN "flavors" ELSE IF k = "cakeClients" THEN "clients" ELSE "orders"
EmptyLs == [k \in LsKeyNames |-> NoItem]
Pages == {"home", "deliv"}

EnvInit ==
  /\ isBrowser \in BOOLEAN
  /\ hasIndexedDB \in {b \in BOOLEAN : b => isBrowser}
  /\ dbPromise = [p \in Pages |-> "null"]
  /\ inbox = 0
  /\ last = NoCall
  /\ nops = 0

\* Collections left by an earlier session.
SeedRecords ==
  [flavors |-> <<[name |-> "Chocolate", pricePerKg |-> "50"]>>,
   clients |-> <<[id |-> "c1", name |-> "Ana", phone |-> "11"]>>,
   orders |-> <<[id |-> "o1", type |-> "custom", clientId |-> "c1", deliveryDate |-> "d1",
                 status |-> "pending"]>>]
SeedIdb == [s \in StoreName |-> Range(SeedRecords[s])]
SeedLs == [k \in LsKeyNames |-> ArrayItem(JSONArray(SeedRecords[StoreOfKey(k)]))]

\* The stores start empty or hold an earlier session's collections in the
\* backend this session uses.
StoresInit ==
  \E seeded \in BOOLEAN :
    /\ idb = IF seeded /\ hasIndexedDB THEN SeedIdb ELSE EmptyIdb
    /\ ls = IF seeded /\ isBrowser /\ ~hasIndexedDB THEN SeedLs ELSE EmptyLs

Init ==
  /\ EnvInit
  /\ hasBC = FALSE
  /\ StoresInit
  /\ twin = 0
  /\ home = 0
  /\ deliv = 0

GetAll(store) ==
  /\ nops < MaxOps
  /\ \E openOk \in OpenOutcomes(World("home")), fault \in BOOLEAN :
       LET S == World("home")
           r == storage_getAll(S, store, openOk, fault)
       IN /\ Commit("home", r)
          /\ \E engineError \in ErrorObjects(r) :
               last' = [Call("home", "getAll", store, "none", <<>>, r, fault, FALSE)
                          EXCEPT !.err = rejection(S, r, engineError)]
  /\ UNCHANGED <<isBrowser, hasIndexedDB, hasBC, inbox, twin, home, deliv>>

Put(store) ==
  /\ nops < MaxOps
  /\ \E value \in Records(store), openOk \in OpenOutcomes(World("home")), fault \in BOOLEAN :
       LET S == World("home")
           r == storage_put(S, store, value, openOk, fault)
       IN /\ Commit("home", r)
          /\ \E engineError \in ErrorObjects(r) :
               last' = [Call("home", "put", store, getKeyValue(store, value), <<value>>, r, fault, FALSE)
                          EXCEPT !.err = rejection(S, r, engineError)]
  /\ UNCHANGED <<isBrowser, hasIndexedDB, hasBC, inbox, twin, home, deliv>>

BulkPut(store) ==
  /\ nops < MaxOps
  /\ \E values \in Arrays(Records(store)), openOk \in OpenOutcomes(World("home")), fault \in BOOLEAN :
       LET S == World("home")
           r == storage_bulkPut(S, store, values, openOk, fault)
       IN /\ Commit("home", r)
          /\ \E engineError \in ErrorObjects(r) :
               last' = [Call("home", "bulkPut", store, "none", values, r, fault, FALSE)
                          EXCEPT !.err = rejection(S, r, engineError)]
  /\ UNCHANGED <<isBrowser, hasIndexedDB, hasBC, inbox, twin, home, deliv>>

Delete(store) ==
  /\ nops < MaxOps
  /\ \E key \in Keys(store), openOk \in OpenOutcomes(World("home")), fault \in BOOLEAN :
       LET S == World("home")
           r == storage_delete(S, store, key, openOk, fault)
       IN /\ Commit("home", r)
          /\ \E engineError \in ErrorObjects(r) :
               last' = [Call("home", "delete", store, key, <<>>, r, fault, FALSE)
                          EXCEPT !.err = rejection(S, r, engineError)]
  /\ UNCHANGED <<isBrowser, hasIndexedDB, hasBC, inbox, twin, home, deliv>>

Next ==
  \/ \E store \in StoreName : GetAll(store)
  \/ \E store \in StoreName : Put(store)
  \/ \E store \in StoreName : BulkPut(store)
  \/ \E store \in StoreName : Delete(store)

Spec == Init /\ [][Next]_vars

(***************************************************************************)
(* Properties of the storage adapter                                       *)
(***************************************************************************)
CollNow(store) == Collection(World("home"), store)

UniqueKeys(store, coll) ==
  \A i, j \in 1..Len(coll) :
    i # j => getKeyValue(store, coll[i]) # getKeyValue(store, coll[j])

WithKey(store, coll, key) == {i \in 1..Len(coll) : getKeyValue(store, coll[i]) = key}

\* The call just made was not failed by the engine: no request, transaction
\* or setItem fault, and the database could be opened.
EngineWorked(page) == ~last.fault /\ ~(hasIndexedDB /\ dbPromise[page] = "rejected")

\* A step that is a call `op` on `store` by the order-entry page.
IsCall(op, store) ==
  /\ nops' = nops + 1
  /\ last'.page = "home" /\ last'.op = op /\ last'.store = store

\* C1: on either backend, a put or delete on a collection whose primary keys
\* are unique leaves them unique; a fulfilled put(kind, R), the second of two
\* equal puts included, leaves exactly one record with R's key, and it reads
\* as R.
C1_OnePerKey ==
  [][\A store \in StoreName :
       (isBrowser /\ (IsCall("put", store) \/ IsCall("delete", store))
          /\ UniqueKeys(store, CollNow(store)))
       => /\ UniqueKeys(store, CollNow(store)')
          /\ (last'.op = "put" /\ last'.ok) =>
               /\ Cardinality(WithKey(store, CollNow(store)', last'.key)) = 1
               /\ \A i \in WithKey(store, CollNow(store)', last'.key) :
                    SameRecord(CollNow(store)'[i], last'.values[1])]_vars

\* C1 witness: a put that repeats the put before it, on either backend.
C1_Witness ==
  /\ last.op = "put" /\ last.again /\ isBrowser
  /\ Cardinality(WithKey(last.store, CollNow(last.store), last.key)) = 1

\* C3 (as claimed): once the open request of the database has failed, every
\* adapter call of the session still completes successfully.
C3_OpenFailureNotSurfaced ==
  (last.page = "home" /\ hasIndexedDB /\ dbPromise["home"] = "rejected") => last.ok

Without(store, coll, key) ==
  SelectSeq(coll, LAMBDA x : Field(x, IF store = "flavors" THEN "name" ELSE "id") # key)

\* C6: delete(kind, key) is fulfilled whenever the engine works, also when
\* it repeats the delete before it or the key was never stored; afterwards
\* no record has that key and the other records of the kind are as before.
C6_DeleteIdempotent ==
  [][\A store \in StoreName :
       (isBrowser /\ IsCall("delete", store))
       => /\ last'.ok <=> EngineWorked("home")'
          /\ last'.ok =>
               /\ WithKey(store, CollNow(store)', last'.key) = {}
               /\ CollNow(store)' = Without(store, CollNow(store), last'.key)]_vars

\* C6 witness: the second of two equal deletes was fulfilled and records of
\* other keys are still there.
C6_Witness ==
  /\ last.op = "delete" /\ last.again /\ isBrowser
  /\ CollNow(last.store) # <<>>

\* The collection with each of the values put by key, in order.
RECURSIVE UpsertAll(_, _, _)
UpsertAll(store, recs, values) ==
  IF values = <<>> THEN recs
  ELSE UpsertAll(store,
         {r \in recs : getKeyValue(store, r) # getKeyValue(store, Head(values))}
           \cup {JSONRecord(Head(values))},
         Tail(values))

Normalised(coll) == {JSONRecord(coll[i]) : i \in 1..Len(coll)}

\* C7 (as claimed): a fulfilled bulkPut leaves the previous collection with
\* each given record put by key, on whichever backend is in use.
C7_BulkPutIsPutEach ==
  [][\A store \in StoreName :
       (isBrowser /\ IsCall("bulkPut", store) /\ last'.ok)
       => Normalised(CollNow(store)') =
            UpsertAll(store, Normalised(CollNow(store)), last'.values)]_vars

C14_OnlyDomainFailures ==
  (last.page = "home" /\ ~last.ok) => last.err \in DomainFailures

\* C16: outside a browser every adapter call is fulfilled and changes
\* nothing; getAll is fulfilled with the empty array.
C16_NoOpOutsideBrowser ==
  [][\A store \in StoreName :
       (~isBrowser /\ \E op \in {"getAll", "put", "bulkPut", "delete"} : IsCall(op, store))
       => /\ last'.ok
          /\ last'.op = "getAll" => last'.ret = <<>>
          /\ idb' = idb /\ ls' = ls]_vars

\* C16 witness: a put made outside a browser has been fulfilled.
C16_Witness ==
  ~isBrowser /\ last.op = "put" /\ last.ok /\ last.fault /\ nops = MaxOps

\* C17: flavor keys are compared case-sensitively on both backends: a
\* fulfilled put of a flavor keeps every stored flavor whose name differs
\* from the new one only in case, and stores the new one next to it.
C17_CaseSensitiveKeys ==
  [][(isBrowser /\ IsCall("put", "flavors") /\ last'.ok)
     => LET v == last'.values[1]
            before == Range(CollNow("flavors"))
            after == Range(CollNow("flavors")')
        IN /\ \A r \in before :
                (r.name # v.name /\ toLowerCase(r.name) = toLowerCase(v.name)) => r \in after
           /\ v \in after]_vars

\* C17 witness: put of 'Chocolate' and of 'chocolate' into an empty catalog
\* left two entries.
C17_Witness ==
  /\ nops = 2 /\ last.op = "put" /\ last.store = "flavors" /\ last.ok
  /\ Len(CollNow("flavors")) = 2
  /\ {r.name : r \in Range(CollNow("flavors"))} = {"Chocolate", "chocolate"}
  /\ \E r \in Range(CollNow("flavors")) : r.name = "Chocolate" /\ r.pricePerKg = "99"

\* C29: a put, bulkPut or delete on one kind, fulfilled or not, leaves the
\* stored collections of the other two kinds as they were, on both
\* backends.
C29_OtherKindsUntouched ==
  [][\A store \in StoreName :
       (\E op \in {"put", "bulkPut", "delete"} : IsCall(op, store))
       => \A other \in StoreName \ {store} :
            /\ CollNow(other)' = CollNow(other)
            /\ idb'[other] = idb[other]
            /\ \A k \in LsKeyNames : StoreOfKey(k) = other => ls'[k] = ls[k]]_vars

\* C29 witness: a put on the catalog changed it while customers and orders
\* are stored.
C29_Witness ==
  /\ last.page = "home" /\ last.op = "put" /\ last.store = "flavors" /\ last.ok
  /\ Len(CollNow("flavors")) = 2
  /\ CollNow("clients") # <<>> /\ CollNow("orders") # <<>>

(***************************************************************************)
(* Adapter calls on localStorage items that are absent or damaged          *)
(* (specification SpecDamaged): the calls of Spec, started without         *)
(* IndexedDB on items that some other writer left unreadable.              *)
(***************************************************************************)
\* Every item holds text of the given kind: "corrupt" does not parse,
\* "nonarray" parses to an object (items: its members, were it taken for
\* an array).
DamagedLs(kind) ==
  [k \in LsKeyNames |->
     [raw |-> kind,
      items |-> IF kind = "nonarray" THEN JSONArray(SeedRecords[StoreOfKey(k)]) ELSE <<>>]]

DamagedInit ==
  /\ EnvInit
  /\ isBrowser /\ ~hasIndexedDB
  /\ hasBC = FALSE
  /\ idb = EmptyIdb
  /\ ls \in {EmptyLs, DamagedLs("corrupt"), DamagedLs("nonarray")}
  /\ twin = 0
  /\ home = 0
  /\ deliv = 0

SpecDamaged == DamagedInit /\ [][Next]_vars

\* C15: on localStorage, when the item of a kind is absent, does not parse
\* or parses to a non-array, getAll is fulfilled with the empty array, and a
\* put that setItem does not fail leaves exactly the record put.
C15_FlatReadsTotal ==
  [][\A store \in StoreName :
       (isBrowser /\ ~hasIndexedDB /\ getItem(ls, lsKeys[store]).raw # "array")
       => /\ IsCall("getAll", store) => last'.ok /\ last'.ret = <<>>
          /\ (IsCall("put", store) /\ ~last'.fault)
               => last'.ok /\ CollNow(store)' = <<JSONRecord(last'.values[1])>>]_vars

\* C15 witness: a put on an item that did not parse to an array left exactly
\* its record, while the items of the other kinds are still damaged.
C15_Witness ==
  /\ nops = 1 /\ last.op = "put" /\ last.ok
  /\ CollNow(last.store) = <<JSONRecord(last.values[1])>>
  /\ \E k \in LsKeyNames : ls[k].raw \in {"corrupt", "nonarray"}

(***************************************************************************)
(* The order-entry page (specification SpecHome): its init effect, which   *)
(* loads, migrates and seeds the catalog and loads and migrates the        *)
(* customers, and its catalog and customer handlers.  The controls of the  *)
(* handlers are disabled while `saving`, so one handler runs at a time;    *)
(* init suspends at each awaited adapter call.                             *)
(*   home.pc      where init is suspended                                  *)
(*   home.parsed  the array init is copying into IndexedDB                 *)
(*   home.flavors, home.clients, home.message   component state            *)
(*   home.origin  the stores as the first session found them               *)
(*   home.faulted, home.clearFailed   an engine call / a removeItem failed *)
(*   home.loads   the number of page loads so far                          *)
(***************************************************************************)
HomeStart(origin) ==
  [pc |-> "getFlavors", parsed |-> <<>>, flavors |-> <<>>, clients |-> <<>>,
   message |-> "none", origin |-> origin, faulted |-> FALSE, clearFailed |-> FALSE,
   loads |-> 1]

LegacyRecords ==
  [flavors |-> <<[name |-> "Chocolate", pricePerKg |-> "50"],
                 [name |-> "chocolate", pricePerKg |-> "99"]>>,
   clients |-> <<[id |-> "c1", name |-> "Ana", phone |-> "11"],
                 [id |-> "c2", name |-> "Ana", phone |-> "11"]>>,
   orders |-> SeedRecords["orders"]]
LegacyLs == [k \in LsKeyNames |-> ArrayItem(JSONArray(LegacyRecords[StoreOfKey(k)]))]

HomeInit ==
  /\ EnvInit
  /\ isBrowser /\ hasBC = FALSE
  /\ idb \in (IF hasIndexedDB THEN {EmptyIdb, SeedIdb} ELSE {EmptyIdb})
  /\ ls \in {EmptyLs, SeedLs, LegacyLs}
  /\ home = HomeStart([idb |-> idb, ls |-> ls])
  /\ twin = 0
  /\ deliv = 0

\* window.localStorage.removeItem(key); rmFault: it throws.
removeItem(items, key, rmFault) == IF rmFault THEN items ELSE [items EXCEPT ![key] = NoItem]

\* setFlavors / setClients
setState(h, store, value) ==
  IF store = "flavors" THEN [h EXCEPT !.flavors = value] ELSE [h EXCEPT !.clients = value]

\* Init after the collection of `store` is settled as `stored`: an empty
\* catalog is seeded next; otherwise the state is set and the next
\* collection is loaded.
initSettled(h, store, stored) ==
  IF store = "flavors" /\ stored = <<>> THEN [h EXCEPT !.pc = "seedFlavors"]
  ELSE [setState(h, store, stored) EXCEPT !.pc = IF store = "flavors" THEN "getClients" ELSE "done"]

\* The outer catch of init.
initFailed(h) == [h EXCEPT !.pc = "done", !.message = "error", !.faulted = TRUE]

PcGet(store) == IF store = "flavors" THEN "getFlavors" ELSE "getClients"
PcMigrate(store) == IF store = "flavors" THEN "migrateFlavors" ELSE "migrateClients"

\* storage.getAll(store) resolves; with IndexedDB and an empty collection
\* the localStorage item is looked at.
InitGet(store) ==
  /\ home.pc = PcGet(store)
  /\ \E openOk \in OpenOutcomes(World("home")), fault \in BOOLEAN, rmFault \in BOOLEAN :
       LET r == storage_getAll(World("home"), store, openOk, fault)
           raw == getItem(ls, lsKeys[store])
       IN /\ dbPromise' = [dbPromise EXCEPT !["home"] = r.db]
          /\ idb' = r.idb
          /\ IF ~r.ok THEN
               /\ home' = initFailed(home)
               /\ ls' = ls
             ELSE IF hasIndexedDB /\ r.ret = <<>> /\ raw.raw \in {"array", "nonarray"} THEN
               IF raw.raw = "array" /\ raw.items # <<>> THEN
                 /\ home' = [home EXCEPT !.pc = PcMigrate(store), !.parsed = raw.items]
                 /\ ls' = ls
               ELSE
                 /\ ls' = removeItem(ls, lsKeys[store], rmFault)
                 /\ home' = [initSettled(home, store, r.ret) EXCEPT
                               !.clearFailed = home.clearFailed \/ rmFault]
             ELSE
               /\ home' = initSettled(home, store, r.ret)
               /\ ls' = ls
  /\ UNCHANGED <<isBrowser, hasIndexedDB, hasBC, inbox, twin, deliv, last, nops>>

\* A variant of InitMigrate: the localStorage item is removed whether or not
\* the copy was fulfilled.
InitMigrateClearing(store) ==
  /\ home.pc = PcMigrate(store)
  /\ \E fault \in BOOLEAN, rmFault \in BOOLEAN :
       LET r == storage_bulkPut(World("home"), store, home.parsed, TRUE, fault)
       IN /\ dbPromise' = [dbPromise EXCEPT !["home"] = r.db]
          /\ idb' = r.idb
          /\ IF r.ok THEN
               /\ ls' = removeItem(r.ls, lsKeys[store], rmFault)
               /\ home' = [initSettled(home, store, home.parsed) EXCEPT
                             !.parsed = <<>>, !.clearFailed = home.clearFailed \/ rmFault]
             ELSE
               /\ ls' = removeItem(r.ls, lsKeys[store], rmFault)
               /\ home' = [initSettled(home, store, <<>>) EXCEPT !.parsed = <<>>, !.faulted = TRUE]
  /\ UNCHANGED <<isBrowser, hasIndexedDB, hasBC, inbox, twin, deliv, last, nops>>

\* storage.bulkPut(store, parsed) resolves; when fulfilled the localStorage
\* item is removed, when rejected the inner catch swallows the error.
InitMigrate(store) ==
  /\ home.pc = PcMigrate(store)
  /\ \E fault \in BOOLEAN, rmFault \in BOOLEAN :
       LET r == storage_bulkPut(World("home"), store, home.parsed, TRUE, fault)
       IN /\ dbPromise' = [dbPromise EXCEPT !["home"] = r.db]
          /\ idb' = r.idb
          /\ IF r.ok THEN
               /\ ls' = removeItem(r.ls, lsKeys[store], rmFault)
               /\ home' = [initSettled(home, store, home.parsed) EXCEPT
                             !.parsed = <<>>, !.clearFailed = home.clearFailed \/ rmFault]
             ELSE
               /\ ls' = r.ls
               /\ home' = [initSettled(home, store, <<>>) EXCEPT !.parsed = <<>>, !.faulted = TRUE]
  /\ UNCHANGED <<isBrowser, hasIndexedDB, hasBC, inbox, twin, deliv, last, nops>>

\* storage.bulkPut('flavors', defaultFlavors) resolves.
InitSeed ==
  /\ home.pc = "seedFlavors"
  /\ \E openOk \in OpenOutcomes(World("home")), fault \in BOOLEAN :
       LET r == storage_bulkPut(World("home"), "flavors", defaultFlavors, openOk, fault)
       IN /\ dbPromise' = [dbPromise EXCEPT !["home"] = r.db]
          /\ idb' = r.idb
          /\ ls' = r.ls
          /\ home' = IF r.ok THEN initSettled(home, "flavors", defaultFlavors)
                      ELSE initFailed(home)
  /\ UNCHANGED <<isBrowser, hasIndexedDB, hasBC, inbox, twin, deliv, last, nops>>

\* The page is loaded again: a new session with a new module state.
Reload ==
  /\ home.loads < MaxLoads
  /\ home.pc = "done"
  /\ home' = [HomeStart(home.origin) EXCEPT
                !.faulted = home.faulted, !.clearFailed = home.clearFailed,
                !.loads = home.loads + 1]
  /\ dbPromise' = [dbPromise EXCEPT !["home"] = "null"]
  /\ UNCHANGED <<isBrowser, hasIndexedDB, hasBC, idb, ls, inbox, twin, deliv, last, nops>>

\* Without IndexedDB every await of init is on a settled promise, so init
\* runs to its end before the event loop dispatches a click of this page.
HandlersRun == hasIndexedDB \/ home.pc = "done"

\* The updater handleAddFlavor passes to setFlavors.
addFlavorState(prev, name, price) ==
  IF \E i \in 1..Len(prev) : toLowerCase(prev[i].name) = toLowerCase(name)
  THEN [i \in 1..Len(prev) |->
          IF toLowerCase(prev[i].name) = toLowerCase(name)
          THEN [prev[i] EXCEPT !.pricePerKg = price] ELSE prev[i]]
  ELSE Append(prev, [name |-> name, pricePerKg |-> price])

handleAddFlavor(name, price) ==
  /\ nops < MaxOps
  /\ HandlersRun
  /\ \E openOk \in OpenOutcomes(World("home")), fault \in BOOLEAN :
       LET value == [name |-> name, pricePerKg |-> price]
           r == storage_put(World("home"), "flavors", value, openOk, fault)
       IN /\ Commit("home", r)
          /\ home' = IF r.ok THEN [home EXCEPT !.flavors = addFlavorState(@, name, price),
                                                !.message = "success"]
                      ELSE [home EXCEPT !.message = "error"]
          /\ last' = Call("home", "addFlavor", "flavors", name, <<value>>, r, fault, FALSE)
  /\ UNCHANGED <<isBrowser, hasIndexedDB, hasBC, inbox, twin, deliv>>

\* The remove button of a listed flavor, disabled while one flavor is left.
handleRemoveFlavor(flavorName) ==
  /\ nops < MaxOps
  /\ HandlersRun
  /\ Len(home.flavors) > 1
  /\ \E i \in 1..Len(home.flavors) : home.flavors[i].name = flavorName
  /\ \E openOk \in OpenOutcomes(World("home")), fault \in BOOLEAN :
       LET r == storage_delete(World("home"), "flavors", flavorName, openOk, fault)
       IN /\ Commit("home", r)
          /\ home' = IF r.ok
                      THEN [home EXCEPT
                              !.flavors = SelectSeq(@, LAMBDA f : f.name # flavorName),
                              !.message = "success"]
                      ELSE [home EXCEPT !.message = "error"]
          /\ last' = Call("home", "removeFlavor", "flavors", flavorName, <<>>, r, fault, FALSE)
  /\ UNCHANGED <<isBrowser, hasIndexedDB, hasBC, inbox, twin, deliv>>

\* The save button of the order form (shown once init is over); the id is
\* Date.now().toString(), so it is new.
handleAddClient(id) ==
  /\ nops < MaxOps
  /\ home.pc = "done"
  /\ \A i \in 1..Len(home.clients) : home.clients[i].id # id
  /\ \A i \in 1..Len(CollNow("clients")) : CollNow("clients")[i].id # id
  /\ \E openOk \in OpenOutcomes(World("home")), fault \in BOOLEAN :
       LET newClient == [id |-> id, name |-> "Ana", phone |-> "11"]
           r == storage_put(World("home"), "clients", newClient, openOk, fault)
       IN /\ Commit("home", r)
          /\ home' = IF r.ok THEN [home EXCEPT !.clients = Append(@, newClient),
                                                !.message = "success"]
                      ELSE [home EXCEPT !.message = "error"]
          /\ last' = Call("home", "addClient", "clients", id, <<newClient>>, r, fault, FALSE)
  /\ UNCHANGED <<isBrowser, hasIndexedDB, hasBC, inbox, twin, deliv>>

\* A variant of handleRemoveClient that also removes the customer's orders.
handleRemoveClientCascade(clientId) ==
  /\ nops < MaxOps
  /\ HandlersRun
  /\ \E i \in 1..Len(home.clients) : home.clients[i].id = clientId
  /\ \E openOk \in OpenOutcomes(World("home")), fault \in BOOLEAN :
       LET r == storage_delete(World("home"), "clients", clientId, openOk, fault)
           kept(o) == Field(o, "clientId") # clientId
       IN /\ dbPromise' = [dbPromise EXCEPT !["home"] = r.db]
          /\ idb' = [r.idb EXCEPT !["orders"] = {o \in @ : kept(o)}]
          /\ ls' = [r.ls EXCEPT ![lsKeys["orders"]] =
                      IF @.raw = "array" THEN ArrayItem(SelectSeq(@.items, kept)) ELSE @]
          /\ nops' = nops + 1
          /\ home' = IF r.ok
                      THEN [home EXCEPT !.clients = SelectSeq(@, LAMBDA c : c.id # clientId)]
                      ELSE [home EXCEPT !.message = "error"]
          /\ last' = Call("home", "removeClient", "clients", clientId, <<>>, r, fault, FALSE)
  /\ UNCHANGED <<isBrowser, hasIndexedDB, hasBC, inbox, twin, deliv>>

\* The remove button of a listed customer.
handleRemoveClient(clientId) ==
  /\ nops < MaxOps
  /\ HandlersRun
  /\ \E i \in 1..Len(home.clients) : home.clients[i].id = clientId
  /\ \E openOk \in OpenOutcomes(World("home")), fault \in BOOLEAN :
       LET r == storage_delete(World("home"), "clients", clientId, openOk, fault)
       IN /\ Commit("home", r)
          /\ home' = IF r.ok
                      THEN [home EXCEPT !.clients = SelectSeq(@, LAMBDA c : c.id # clientId)]
                      ELSE [home EXCEPT !.message = "error"]
          /\ last' = Call("home", "removeClient", "clients", clientId, <<>>, r, fault, FALSE)
  /\ UNCHANGED <<isBrowser, hasIndexedDB, hasBC, inbox, twin, deliv>>

\* handleAddFlavor of the order-entry page open in another tab, whose
\* database is open.
handleAddFlavorElsewhere(name, price) ==
  /\ nops < MaxOps
  /\ \E fault \in BOOLEAN :
       LET value == [name |-> name, pricePerKg |-> price]
           r == storage_put([World("home") EXCEPT !.db = IF hasIndexedDB THEN "resolved" ELSE "null"],
                            "flavors", value, TRUE, fault)
       IN /\ idb' = r.idb
          /\ ls' = r.ls
          /\ last' = Call("elsewhere", "addFlavor", "flavors", name, <<value>>, r, fault, FALSE)
  /\ nops' = nops + 1
  /\ UNCHANGED <<isBrowser, hasIndexedDB, hasBC, dbPromise, inbox, twin, home, deliv>>

HomeNext ==
  \/ \E store \in {"flavors", "clients"} : InitGet(store)
  \/ \E store \in {"flavors", "clients"} : InitMigrate(store)
  \/ InitSeed
  \/ Reload
  \/ \E name \in FlavorNames, price \in Prices : handleAddFlavor(name, price)
  \/ \E name \in FlavorNames \cup Range([i \in 1..Len(defaultFlavors) |-> defaultFlavors[i].name]) :
       handleRemoveFlavor(name)
  \/ \E id \in ClientIds : handleAddClient(id)
  \/ \E id \in ClientIds : handleRemoveClient(id)
  \/ \E name \in FlavorNames, price \in Prices : handleAddFlavorElsewhere(name, price)

SpecHome == HomeInit /\ [][HomeNext]_vars

\* The records of the localStorage item of a kind, as a set.
FlatRecords(items, store) ==
  IF getItem(items, lsKeys[store]).raw = "array"
  THEN Range(getItem(items, lsKeys[store]).items) ELSE {}

\* The page's init has run to its end, once or after reloads, with no
\* handler call and no failed engine call in between.
MigrationRan ==
  /\ hasIndexedDB /\ home.pc = "done" /\ ~home.faulted /\ last = NoCall

\* C4 (as claimed): for each of the three kinds, when the first session
\* found N >= 1 records of the kind in localStorage and none in IndexedDB,
\* after init (run once or again) IndexedDB holds exactly those N records,
\* and localStorage none of the kind unless removing the item failed.
C4_MigratesEveryKind ==
  MigrationRan =>
    \A store \in StoreName :
      (FlatRecords(home.origin.ls, store) # {} /\ home.origin.idb[store] = {})
      => /\ {JSONRecord(x) : x \in idb[store]} = FlatRecords(home.origin.ls, store)
         /\ ~home.clearFailed => FlatRecords(ls, store) = {}

\* The part of C4 that holds: the catalog and the customers are migrated.
MigratesCatalogAndCustomers ==
  MigrationRan =>
    \A store \in {"flavors", "clients"} :
      (FlatRecords(home.origin.ls, store) # {} /\ home.origin.idb[store] = {})
      => /\ {JSONRecord(x) : x \in idb[store]} = FlatRecords(home.origin.ls, store)
         /\ ~home.clearFailed => FlatRecords(ls, store) = {}

\* C5: removing a customer leaves every stored order as it was, the orders
\* that carry the customer's id included, and the call is fulfilled
\* whenever the engine does not fail it; afterwards the customer is gone.
C5_OrdersSurviveClientRemoval ==
  [][(nops' = nops + 1 /\ last'.op = "removeClient")
     => /\ CollNow("orders")' = CollNow("orders")
        /\ last'.ok <=> EngineWorked("home")'
        /\ last'.ok => WithKey("clients", CollNow("clients")', last'.key) = {}]_vars

\* C5 witness: a customer was removed while a stored order carries its id.
C5_Witness ==
  /\ last.op = "removeClient" /\ last.ok
  /\ \E i \in 1..Len(CollNow("orders")) : Field(CollNow("orders")[i], "clientId") = last.key

\* The step in which init's seeding call settles.
SeedSettles == home.pc = "seedFlavors" /\ home'.pc # "seedFlavors"

\* C11 (as claimed): when the seeding call of init settles, every record
\* the catalog held just before is still in the catalog, unchanged, whatever
\* this context or another one wrote since init read the catalog as empty.
C11_SeedKeepsCatalog ==
  [][SeedSettles =>
       \A i \in 1..Len(CollNow("flavors")) :
         \E j \in 1..Len(CollNow("flavors")') : CollNow("flavors")'[j] = CollNow("flavors")[i]]_vars

\* C20 (as claimed): the defaults are written only when neither backend
\* holds catalog data: with no handler called so far, a seeding call that
\* changes the catalog was made with no catalog record in localStorage.
C20_SeedOnlyWithoutPriorData ==
  [][(SeedSettles /\ last = NoCall /\ CollNow("flavors")' # CollNow("flavors"))
       => FlatRecords(ls, "flavors") = {}]_vars

\* C19: while no handler has been called, every record the first session
\* found in localStorage is in localStorage or in IndexedDB; so the item of
\* a kind is removed only once its records are copied, and a failed copy
\* leaves it as it was.
C19_NoRecordLostInMigration ==
  last = NoCall =>
    \A store \in StoreName :
      \A rec \in FlatRecords(home.origin.ls, store) :
        \/ rec \in FlatRecords(ls, store)
        \/ hasIndexedDB /\ rec \in {JSONRecord(x) : x \in idb[store]}

\* C19 witness: a copy failed and left the localStorage records in place,
\* with none of them in IndexedDB.
C19_Witness ==
  /\ last = NoCall /\ hasIndexedDB /\ home.faulted /\ home.pc = "done"
  /\ \E store \in {"flavors", "clients"} :
       /\ FlatRecords(home.origin.ls, store) # {}
       /\ FlatRecords(ls, store) = FlatRecords(home.origin.ls, store)
       /\ FlatRecords(ls, store) \cap {JSONRecord(x) : x \in idb[store]} = {}

\* No two entries of a catalog have names that are equal ignoring case.
CaseUnique(coll) ==
  \A i, j \in 1..Len(coll) :
    i # j => toLowerCase(coll[i].name) # toLowerCase(coll[j].name)

\* C21 (as claimed): a fulfilled handleAddFlavor on a stored catalog without
\* names equal ignoring case leaves the stored catalog without such names.
C21_NoCaseDuplicates ==
  [][(/\ nops' = nops + 1
      /\ last'.page = "home" /\ last'.op = "addFlavor" /\ last'.ok
      /\ CaseUnique(CollNow("flavors")))
     => CaseUnique(CollNow("flavors")')]_vars

\* The (name, price) entries of a catalog.
Entries(coll) == {[name |-> coll[i].name, pricePerKg |-> coll[i].pricePerKg] : i \in 1..Len(coll)}

\* C28 (as claimed): when the view's list and the stored catalog hold the
\* same entries after init, a fulfilled handleAddFlavor or
\* handleRemoveFlavor leaves them holding the same entries.
C28_ListMatchesStore ==
  [][(/\ nops' = nops + 1
      /\ last'.page = "home" /\ last'.op \in {"addFlavor", "removeFlavor"} /\ last'.ok
      /\ home.pc = "done"
      /\ Entries(home.flavors) = Entries(CollNow("flavors")))
     => Entries(home'.flavors) = Entries(CollNow("flavors")')]_vars

\* What does hold: a fulfilled handleRemoveFlavor keeps the list and the
\* stored catalog equal, and so does a handleAddFlavor whose name differs
\* from every listed name, or equals one, also when case is ignored.
ListMatchesStoreUnlessCaseDiffers ==
  [][(/\ nops' = nops + 1
      /\ last'.page = "home" /\ last'.op \in {"addFlavor", "removeFlavor"} /\ last'.ok
      /\ home.pc = "done"
      /\ Entries(home.flavors) = Entries(CollNow("flavors"))
      /\ last'.op = "addFlavor" =>
           \A f \in Range(home.flavors) :
             toLowerCase(f.name) = toLowerCase(last'.key) => f.name = last'.key)
     => Entries(home'.flavors) = Entries(CollNow("flavors")')]_vars

(***************************************************************************)
(* The same calls made on two installations that differ only in the        *)
(* backend (specification SpecTwin): the variables hold the installation   *)
(* with IndexedDB, `twin` the one without.                                 *)
(***************************************************************************)
TwinWorld ==
  [isBrowser |-> TRUE, hasIndexedDB |-> FALSE, db |-> twin.db, idb |-> twin.idb, ls |-> twin.ls]

TwinInit ==
  /\ EnvInit
  /\ isBrowser /\ hasIndexedDB /\ hasBC = FALSE
  /\ \E seeded \in BOOLEAN :
       /\ idb = IF seeded THEN SeedIdb ELSE EmptyIdb
       /\ ls = EmptyLs
       /\ twin = [db |-> "null", idb |-> EmptyIdb, ls |-> IF seeded THEN SeedLs ELSE EmptyLs,
                  ok |-> TRUE, ret |-> <<>>, clean |-> TRUE]
  /\ home = 0
  /\ deliv = 0

\* clean: no call so far was failed by the engine (a faulting request,
\* transaction or setItem, or a database that could not be opened).
TwinCommit(t, r, fault) ==
  twin' = [db |-> t.db, idb |-> t.idb, ls |-> t.ls, ok |-> t.ok, ret |-> t.ret,
           clean |-> twin.clean /\ ~fault /\ r.db # "rejected"]

TwinGetAll(store) ==
  /\ nops < MaxOps
  /\ \E openOk \in OpenOutcomes(World("home")), fault \in BOOLEAN :
       LET r == storage_getAll(World("home"), store, openOk, fault)
           t == storage_getAll(TwinWorld, store, TRUE, fault)
       IN /\ Commit("home", r)
          /\ TwinCommit(t, r, fault)
          /\ last' = Call("home", "getAll", store, "none", <<>>, r, fault, FALSE)
  /\ UNCHANGED <<isBrowser, hasIndexedDB, hasBC, inbox, home, deliv>>

TwinPut(store) ==
  /\ nops < MaxOps
  /\ \E value \in Records(store), openOk \in OpenOutcomes(World("home")), fault \in BOOLEAN :
       LET r == storage_put(World("home"), store, value, openOk, fault)
           t == storage_put(TwinWorld, store, value, TRUE, fault)
       IN /\ Commit("home", r)
          /\ TwinCommit(t, r, fault)
          /\ last' = Call("home", "put", store, getKeyValue(store, value), <<value>>, r, fault, FALSE)
  /\ UNCHANGED <<isBrowser, hasIndexedDB, hasBC, inbox, home, deliv>>

TwinDelete(store) ==
  /\ nops < MaxOps
  /\ \E key \in Keys(store), openOk \in OpenOutcomes(World("home")), fault \in BOOLEAN :
       LET r == storage_delete(World("home"), store, key, openOk, fault)
           t == storage_delete(TwinWorld, store, key, TRUE, fault)
       IN /\ Commit("home", r)
          /\ TwinCommit(t, r, fault)
          /\ last' = Call("home", "delete", store, key, <<>>, r, fault, FALSE)
  /\ UNCHANGED <<isBrowser, hasIndexedDB, hasBC, inbox, home, deliv>>

\* The helpers of the deliveries page, which has its own dbPromise.
TwinStorageGetAll ==
  /\ nops < MaxOps
  /\ \E openOk \in OpenOutcomes(World("deliv")), fault \in BOOLEAN :
       LET r == storageGetAll(World("deliv"), openOk, fault)
           t == storageGetAll(TwinWorld, TRUE, fault)
       IN /\ Commit("deliv", r)
          /\ TwinCommit(t, r, fault)
          /\ last' = Call("deliv", "getAll", "orders", "none", <<>>, r, fault, FALSE)
  /\ UNCHANGED <<isBrowser, hasIndexedDB, hasBC, inbox, home, deliv>>

TwinStoragePut ==
  /\ nops < MaxOps
  /\ \E value \in Order, openOk \in OpenOutcomes(World("deliv")), fault \in BOOLEAN :
       LET r == storagePut(World("deliv"), value, openOk, fault, hasBC, FALSE)
           t == storagePut(TwinWorld, value, TRUE, fault, hasBC, FALSE)
       IN /\ Commit("deliv", r)
          /\ TwinCommit(t, r, fault)
          /\ last' = Call("deliv", "put", "orders", value.id, <<value>>, r, fault, FALSE)
  /\ UNCHANGED <<isBrowser, hasIndexedDB, hasBC, inbox, home, deliv>>

TwinStorageDelete ==
  /\ nops < MaxOps
  /\ \E key \in OrderIds, openOk \in OpenOutcomes(World("deliv")), fault \in BOOLEAN :
       LET r == storageDelete(World("deliv"), key, openOk, fault, hasBC, FALSE)
           t == storageDelete(TwinWorld, key, TRUE, fault, hasBC, FALSE)
       IN /\ Commit("deliv", r)
          /\ TwinCommit(t, r, fault)
          /\ last' = Call("deliv", "delete", "orders", key, <<>>, r, fault, FALSE)
  /\ UNCHANGED <<isBrowser, hasIndexedDB, hasBC, inbox, home, deliv>>

TwinNext ==
  \/ \E store \in StoreName : TwinGetAll(store)
  \/ \E store \in StoreName : TwinPut(store)
  \/ \E store \in StoreName : TwinDelete(store)
  \/ TwinStorageGetAll
  \/ TwinStoragePut
  \/ TwinStorageDelete

SpecTwin == TwinInit /\ [][TwinNext]_vars

\* C2: the same put / getAll / delete calls on the installation with
\* IndexedDB and on the one with localStorage give the same results as long
\* as the engine fails none of them: every call is fulfilled on both, every
\* getAll returns the same set of records, and the collections of every
\* kind hold the same records.
C2_BackendTransparent ==
  twin.clean =>
    /\ last.ok = twin.ok
    /\ Normalised(last.ret) = Normalised(twin.ret)
    /\ \A store \in StoreName :
         Normalised(Collection(World("home"), store)) = Normalised(Collection(TwinWorld, store))

\* C2 witness: after a write made on both installations changed a
\* collection, a getAll returned a non-empty collection on both.
C2_Witness ==
  /\ nops = MaxOps /\ twin.clean
  /\ last.op = "getAll" /\ last.ok /\ twin.ok /\ last.ret # <<>>
  /\ \E store \in StoreName : Collection(TwinWorld, store) # JSONArray(SeedRecords[store]) /\ Collection(TwinWorld, store) # <<>>

(***************************************************************************)
(* The open of the database seen in flight (specification SpecOpen).       *)
(* The adapter calls of the page are followed from the call of getDB to    *)
(* the settling of their transaction: dbPromise is "pending" between       *)
(* indexedDB.open and its onsuccess / onerror.                             *)
(*   home.opens    the number of indexedDB.open requests made so far       *)
(*   home.waiting  the calls that await dbPromise or their transaction,    *)
(*                 in the order they were made                             *)
(***************************************************************************)
AdapterOps == {"getAll", "put", "bulkPut", "delete"}

OpenInit ==
  /\ EnvInit
  /\ isBrowser
  /\ hasBC = FALSE
  /\ StoresInit
  /\ home = [opens |-> 0, waiting |-> <<>>]
  /\ twin = 0
  /\ deliv = 0

\* A variant of opensDatabase: only a fulfilled open is reused.
opensUnlessResolved(db) == db # "resolved"

\* getDB makes an open request when no promise is memoised.
opensDatabase(db) == db = "null"

\* What an adapter call does once the database promise has settled.
adapterCall(S, call, fault) ==
  IF call.op = "getAll" THEN storage_getAll(S, call.store, TRUE, fault)
  ELSE IF call.op = "put" THEN storage_put(S, call.store, call.values[1], TRUE, fault)
  ELSE IF call.op = "bulkPut" THEN storage_bulkPut(S, call.store, call.values, TRUE, fault)
  ELSE storage_delete(S, call.store, call.key, TRUE, fault)

\* The page calls an adapter operation.  On localStorage it has settled
\* when it returns; on IndexedDB it calls getDB and awaits the promise.
Invoke(op, store, value) ==
  /\ nops < MaxOps
  /\ LET values == IF op = "bulkPut" THEN SeedRecords[store] \o <<value>> ELSE <<value>>
         call == [op |-> op, store |-> store, values |-> values,
                  key |-> getKeyValue(store, values[1])]
     IN IF ~hasIndexedDB
        THEN \E fault \in BOOLEAN :
               LET r == adapterCall(World("home"), call, fault)
               IN /\ ls' = r.ls
                  /\ last' = Call("home", op, store, call.key, call.values, r, fault, FALSE)
                  /\ UNCHANGED <<dbPromise, home>>
        ELSE /\ dbPromise' = IF opensDatabase(dbPromise["home"])
                             THEN [dbPromise EXCEPT !["home"] = "pending"] ELSE dbPromise
             /\ home' = [home EXCEPT
                           !.opens = IF opensDatabase(dbPromise["home"]) THEN @ + 1 ELSE @,
                           !.waiting = Append(@, call)]
             /\ UNCHANGED <<ls, last>>
  /\ nops' = nops + 1
  /\ UNCHANGED <<isBrowser, hasIndexedDB, hasBC, idb, inbox, twin, deliv>>

\* request.onsuccess
OpenSuccess ==
  /\ dbPromise["home"] = "pending"
  /\ dbPromise' = [dbPromise EXCEPT !["home"] = "resolved"]
  /\ UNCHANGED <<isBrowser, hasIndexedDB, hasBC, idb, ls, inbox, twin, home, deliv, last, nops>>

\* request.onerror
OpenError ==
  /\ dbPromise["home"] = "pending"
  /\ dbPromise' = [dbPromise EXCEPT !["home"] = "rejected"]
  /\ UNCHANGED <<isBrowser, hasIndexedDB, hasBC, idb, ls, inbox, twin, home, deliv, last, nops>>

\* The oldest waiting call resumes after `await getDB()` and its
\* transaction settles, or it is rejected with the failed open.
Proceed ==
  /\ home.waiting # <<>>
  /\ dbPromise["home"] \in {"resolved", "rejected"}
  /\ \E fault \in BOOLEAN :
       LET call == Head(home.waiting)
           r == adapterCall(World("home"), call, fault)
       IN /\ idb' = r.idb
          /\ last' = Call("home", call.op, call.store, call.key, call.values, r, fault, FALSE)
  /\ home' = [home EXCEPT !.waiting = Tail(@)]
  /\ UNCHANGED <<isBrowser, hasIndexedDB, hasBC, dbPromise, ls, inbox, twin, deliv, nops>>

OpenNext ==
  \/ \E op \in AdapterOps, store \in StoreName : \E value \in Records(store) :
       Invoke(op, store, value)
  \/ OpenSuccess
  \/ OpenError
  \/ Proceed

SpecOpen == OpenInit /\ [][OpenNext]_vars

selectedDate == "d1"

DelivStart ==
  [mounted |-> FALSE, orders |-> <<>>, loading |-> TRUE, saving |-> FALSE, message |-> "none",
   queue |-> <<>>, readFailed |-> FALSE, done |-> 0, visible |-> 0]

SyncInit ==
  /\ EnvInit
  /\ isBrowser
  /\ hasBC \in BOOLEAN
  /\ idb \in (IF hasIndexedDB THEN {EmptyIdb, SeedIdb} ELSE {EmptyIdb})
  /\ ls \in (IF hasIndexedDB THEN {EmptyLs} ELSE {EmptyLs, SeedLs})
  /\ deliv = DelivStart
  /\ home = 0
  /\ twin = 0

\* A variant of nextRequest: the newest pending request is served first.
newestRequest(queue) == Len(queue)

\* The pending request that is served next.
nextRequest(queue) == 1

\* load(): after the await, in try / catch / finally.
loadDone(d, r) ==
  [d EXCEPT !.orders = IF r.ok THEN r.ret ELSE @,
            !.message = IF r.ok THEN @ ELSE "loadError",
            !.loading = FALSE,
            !.readFailed = ~r.ok]

\* updateStatus / updateDate: after the await.
updateDone(d, updated, r) ==
  [d EXCEPT !.orders = IF r.ok
                       THEN [i \in 1..Len(@) |-> IF @[i].id = updated.id THEN updated ELSE @[i]]
                       ELSE @,
            !.message = IF r.ok THEN "success" ELSE "error",
            !.saving = FALSE,
            !.done = @ + 1]

\* removeOrder: after the await.
removeDone(d, id, r) ==
  [d EXCEPT !.orders = IF r.ok THEN SelectSeq(@, LAMBDA x : x.id # id) ELSE @,
            !.message = IF r.ok THEN "success" ELSE "error",
            !.saving = FALSE,
            !.done = @ + 1]

\* The helper call a request of the view stands for.
Served(req, openOk, fault, bcThrows) ==
  IF req.op = "load" THEN storageGetAll(World("deliv"), openOk, fault)
  ELSE IF req.op = "remove"
  THEN WithPosted(idbDelete(World("deliv"), "orders", req.key, openOk, fault), FALSE)
  ELSE storagePut(World("deliv"), req.value, openOk, fault, hasBC, bcThrows)

\* Request req of the view settles and the code awaiting it runs to its
\* end; d is the component state and q the requests still pending.
Settle(d, req, q) ==
  \E openOk \in OpenOutcomes(World("deliv")), fault \in BOOLEAN,
     bcThrows \in (IF hasBC /\ ~hasIndexedDB /\ req.op \notin {"load", "remove"}
                   THEN BOOLEAN ELSE {FALSE}) :
    LET r == Served(req, openOk, fault, bcThrows)
        dq == [d EXCEPT !.queue = q]
    IN /\ dbPromise' = [dbPromise EXCEPT !["deliv"] = r.db]
       /\ idb' = r.idb
       /\ ls' = r.ls
       /\ inbox' = IF r.posted /\ d.mounted THEN inbox + 1 ELSE inbox
       /\ deliv' = IF req.op = "load" THEN loadDone(dq, r)
                   ELSE IF req.op = "remove" THEN removeDone(dq, req.key, r)
                   ELSE updateDone(dq, req.value, r)
       /\ last' = IF req.op = "load" THEN last
                  ELSE [Call("deliv", req.op, "orders", req.key,
                             IF req.op = "remove" THEN <<>> ELSE <<req.value>>,
                             r, fault, r.posted)
                          EXCEPT !.bcThrows = bcThrows]

\* The view makes request req: without IndexedDB, or with an open that has
\* failed already, the helper has settled when it returns.
Request(d, req) ==
  IF ~hasIndexedDB \/ dbPromise["deliv"] = "rejected"
  THEN Settle(d, req, d.queue)
  ELSE /\ deliv' = [d EXCEPT !.queue = Append(@, req)]
       /\ UNCHANGED <<dbPromise, idb, ls, inbox, last>>

LoadRequest == [op |-> "load", key |-> "none", value |-> <<>>, late |-> nops = MaxOps]

\* The mount effect: load(), subscribe to 'cake_sync', listen to visibilitychange.
Mount ==
  /\ ~deliv.mounted
  /\ Request([deliv EXCEPT !.mounted = TRUE, !.loading = TRUE], LoadRequest)
  /\ UNCHANGED <<isBrowser, hasIndexedDB, hasBC, twin, home, nops>>

\* bc.onmessage with an 'orders_changed' message.
ReceiveMessage ==
  /\ deliv.mounted /\ inbox > 0
  /\ \E openOk \in OpenOutcomes(World("deliv")), fault \in BOOLEAN :
       LET r == storageGetAll(World("deliv"), openOk, fault)
           d == [deliv EXCEPT !.loading = TRUE]
       IN IF ~hasIndexedDB \/ dbPromise["deliv"] = "rejected"
          THEN /\ deliv' = loadDone(d, r)
               /\ dbPromise' = [dbPromise EXCEPT !["deliv"] = r.db]
          ELSE /\ deliv' = [d EXCEPT !.queue = Append(@, LoadRequest)]
               /\ dbPromise' = dbPromise
  /\ inbox' = inbox - 1
  /\ UNCHANGED <<isBrowser, hasIndexedDB, hasBC, idb, ls, twin, home, last, nops>>

\* onVisibility with document.visibilityState === 'visible'.
Visibility ==
  /\ deliv.mounted /\ deliv.visible < MaxVisible
  /\ Request([deliv EXCEPT !.loading = TRUE, !.visible = @ + 1], LoadRequest)
  /\ UNCHANGED <<isBrowser, hasIndexedDB, hasBC, twin, home, nops>>

\* !v for the values a deliveryDate member takes.
falsy(v) == v = Undefined \/ v = ""

\* The useMemo maps of the view.  ordersByDate: the orders with a date,
\* grouped by it (each group in the order of `orders`; the model's orders
\* carry no createdAt to sort a group by).
ordersByDate(orders) ==
  [k \in {Field(orders[i], "deliveryDate") : i \in {j \in 1..Len(orders) :
                                                      ~falsy(Field(orders[j], "deliveryDate"))}}
     |-> SelectSeq(orders, LAMBDA o : Field(o, "deliveryDate") = k)]

\* A variant of selectedOrders that also lists the orders without a date.
selectedOrdersOrUndated(orders, date) ==
  SelectSeq(orders, LAMBDA o : falsy(Field(o, "deliveryDate")) \/ Field(o, "deliveryDate") = date)

\* orders.filter((o) => o.deliveryDate === selectedDate)
selectedOrders(orders, date) ==
  SelectSeq(orders, LAMBDA o : Field(o, "deliveryDate") = date)

\* The controls of an order are rendered when the list is (not loading),
\* for the orders of the selected day, and are disabled while saving.
Control(id) ==
  /\ deliv.mounted /\ ~deliv.loading /\ ~deliv.saving
  /\ \E o \in Range(selectedOrders(deliv.orders, selectedDate)) : o.id = id

\* orders.find((x) => x.id === id)
find(orders, id) == orders[CHOOSE i \in 1..Len(orders) :
                             orders[i].id = id /\ \A j \in 1..(i - 1) : orders[j].id # id]

\* { ...o, member: value }
spread(o, member, value) ==
  [f \in DOMAIN o \cup {member} |-> IF f = member THEN value ELSE o[f]]

updateStatus(id, status) ==
  /\ nops < MaxOps
  /\ Control(id)
  /\ Request([deliv EXCEPT !.saving = TRUE],
             [op |-> "updateStatus", key |-> id,
              value |-> spread(find(deliv.orders, id), "status", status), late |-> FALSE])
  /\ nops' = nops + 1
  /\ UNCHANGED <<isBrowser, hasIndexedDB, hasBC, twin, home>>

updateDate(id, newDate) ==
  /\ nops < MaxOps
  /\ Control(id)
  /\ Request([deliv EXCEPT !.saving = TRUE],
             [op |-> "updateDate", key |-> id,
              value |-> spread(find(deliv.orders, id), "deliveryDate",
                               IF newDate = "" THEN Undefined ELSE newDate),
              late |-> FALSE])
  /\ nops' = nops + 1
  /\ UNCHANGED <<isBrowser, hasIndexedDB, hasBC, twin, home>>

\* removeOrder, confirmed by the user; it calls idbDelete, not storageDelete.
removeOrder(id) ==
  /\ nops < MaxOps
  /\ Control(id)
  /\ Request([deliv EXCEPT !.saving = TRUE],
             [op |-> "remove", key |-> id, value |-> <<>>, late |-> FALSE])
  /\ nops' = nops + 1
  /\ UNCHANGED <<isBrowser, hasIndexedDB, hasBC, twin, home>>

\* The oldest pending request of the view settles.
Complete ==
  /\ deliv.queue # <<>>
  /\ LET i == nextRequest(deliv.queue)
     IN Settle(deliv, deliv.queue[i],
               [j \in 1..(Len(deliv.queue) - 1) |->
                  IF j < i THEN deliv.queue[j] ELSE deliv.queue[j + 1]])
  /\ UNCHANGED <<isBrowser, hasIndexedDB, hasBC, twin, home, nops>>

\* A variant of isFormValid that asks of a custom order what it asks of a
\* ready one.
isFormValidBasic(orderType, deliveryDate) == TRUE

\* isFormValid of the order form, the cake and customer fields being filled
\* in; deliveryDate is the text of the date field.
isFormValid(orderType, deliveryDate) ==
  IF orderType = "ready" THEN TRUE ELSE deliveryDate # ""

\* The order saveOrder builds.
newOrder(id, orderType, deliveryDate) ==
  [id |-> id, type |-> orderType, clientId |-> ClientOf(id),
   deliveryDate |-> IF orderType = "custom" THEN deliveryDate ELSE Undefined,
   status |-> "pending"]

\* handleGenerateNote of the order-entry page, in another tab, with a valid
\* form: saveOrder; the id is new.
saveOrder(id) ==
  /\ nops < MaxOps
  /\ \A i \in 1..Len(CollNow("orders")) : CollNow("orders")[i].id # id
  /\ \A i \in 1..Len(deliv.orders) : deliv.orders[i].id # id
  /\ \A i \in 1..Len(deliv.queue) : deliv.queue[i].key # id
  /\ \E openOk \in OpenOutcomes(World("home")), fault \in BOOLEAN,
        bcThrows \in (IF hasBC THEN BOOLEAN ELSE {FALSE}),
        deliveryDate \in {d \in Dates \cup {""} : isFormValid(OrderTypeOf(id), d)} :
       LET order == newOrder(id, OrderTypeOf(id), deliveryDate)
           r == storage_put(World("home"), "orders", order, openOk, fault)
           posted == r.ok /\ isBrowser /\ postMessage(hasBC, bcThrows)
       IN /\ Commit("home", r)
          /\ inbox' = IF posted /\ deliv.mounted THEN inbox + 1 ELSE inbox
          /\ last' = [Call("home", "saveOrder", "orders", id, <<order>>, r, fault, posted)
                        EXCEPT !.bcThrows = bcThrows]
          /\ deliv' = [deliv EXCEPT !.done = @ + 1]
  /\ UNCHANGED <<isBrowser, hasIndexedDB, hasBC, twin, home>>

\* removeOrder of a second deliveries view, in another tab.
removeOrderElsewhere(id) ==
  /\ nops < MaxOps
  /\ \E i \in 1..Len(CollNow("orders")) : CollNow("orders")[i].id = id
  /\ \E fault \in BOOLEAN :
       LET r == idbDelete([World("deliv") EXCEPT !.db = IF hasIndexedDB THEN "resolved" ELSE "null"],
                          "orders", id, TRUE, fault)
       IN /\ idb' = r.idb
          /\ last' = Call("elsewhere", "remove", "orders", id, <<>>, r, fault, FALSE)
          /\ deliv' = [deliv EXCEPT !.done = @ + 1]
  /\ nops' = nops + 1
  /\ UNCHANGED <<isBrowser, hasIndexedDB, hasBC, dbPromise, ls, inbox, twin, home>>

SyncNext ==
  \/ Mount
  \/ ReceiveMessage
  \/ Visibility
  \/ Complete
  \/ \E id \in OrderIds, status \in OrderStatus : updateStatus(id, status)
  \/ \E id \in OrderIds, newDate \in Dates \cup {""} : updateDate(id, newDate)
  \/ \E id \in OrderIds : removeOrder(id)
  \/ \E id \in OrderIds : saveOrder(id)
  \/ \E id \in OrderIds : removeOrderElsewhere(id)

SpecSync == SyncInit /\ [][SyncNext]_vars

\* The event loop delivers a queued message and settles a pending request.
SpecSyncLive == SpecSync /\ WF_vars(Complete) /\ WF_vars(ReceiveMessage)

\* The calls that write an order.
OrderWrites == {"saveOrder", "updateStatus", "updateDate", "remove"}

\* The orders the view holds that carry no delivery date.
Undated(orders) == {o \in Range(orders) : Field(o, "deliveryDate") = Undefined}

\* C18: an order without a delivery date, saved so or after updateDate
\* cleared its date, is stored whenever the engine does not fail the write
\* and is among the stored orders afterwards; the view that holds it lists
\* it under no date of the grouping and in no day's delivery list.
C18_UndatedOrderInNoDay ==
  /\ (/\ last.op \in {"saveOrder", "updateDate"}
      /\ Field(last.values[1], "deliveryDate") = Undefined)
     => /\ (last.page \in Pages /\ EngineWorked(last.page)) => last.ok
        /\ last.ok => \E j \in WithKey("orders", CollNow("orders"), last.key) :
                        /\ SameRecord(CollNow("orders")[j], last.values[1])
                        /\ Field(CollNow("orders")[j], "deliveryDate") = Undefined
  /\ \A o \in Undated(deliv.orders) :
       /\ \A k \in DOMAIN ordersByDate(deliv.orders) : o \notin Range(ordersByDate(deliv.orders)[k])
       /\ \A d \in Dates : o \notin Range(selectedOrders(deliv.orders, d))

\* C18 witness: updateDate cleared the date of an order; the write was
\* fulfilled, the order is stored without a date and the view holds it.
C18_Witness ==
  /\ last.op = "updateDate" /\ last.ok
  /\ Field(last.values[1], "deliveryDate") = Undefined
  /\ \E o \in Undated(deliv.orders) : o.id = last.key
  /\ \E o \in Undated(CollNow("orders")) : o.id = last.key
  /\ deliv.queue = <<>>

\* C22 (as claimed): without IndexedDB, a removal made from the deliveries
\* view that setItem does not fail is fulfilled, and the order is no longer
\* in the localStorage collection.
C22_RemoveReachesFlatBackend ==
  (/\ last.page = "deliv" /\ last.op = "remove"
   /\ ~hasIndexedDB /\ ~last.fault)
  => /\ last.ok
     /\ WithKey("orders", CollNow("orders"), last.key) = {}

\* C30: an order is created pending, with a delivery date when it is
\* custom and without one when it is ready; and whatever the deliveries
\* view does, no stored ready order has a delivery date.
C30_ReadyOrdersUndated ==
  /\ last.op = "saveOrder"
     => LET o == last.values[1]
        IN /\ o.status = "pending"
           /\ o.type = "custom" => ~falsy(o.deliveryDate)
           /\ o.type = "ready" => o.deliveryDate = Undefined
  /\ \A o \in Range(CollNow("orders")) :
       o.type = "ready" => Field(o, "deliveryDate") = Undefined

\* C30 witness: a ready order is stored and the deliveries view has
\* changed the date of an order.
C30_Witness ==
  /\ \E o \in Range(CollNow("orders")) : o.type = "ready"
  /\ last.page = "deliv" /\ last.op = "updateDate" /\ last.ok

\* C8 (as claimed): a fulfilled write of an order, by whichever view and on
\* whichever backend, has published a change message when BroadcastChannel
\* is supported and publishing did not throw.
C8_EveryWritePublishes ==
  (last.op \in OrderWrites /\ last.ok /\ hasBC /\ ~last.bcThrows) => last.posted

\* What holds of the write that settled last, right after it settled.
PublishedInOrder ==
  /\ last.posted =>
       /\ last.ok
       /\ \A i \in 1..Len(last.values) :
            \E j \in WithKey("orders", CollNow("orders"), last.key) :
              SameRecord(CollNow("orders")[j], last.values[i])
       /\ last.values = <<>> => WithKey("orders", CollNow("orders"), last.key) = {}
  /\ ~last.ok => ~last.posted
  /\ (last.bcThrows /\ last.page \in Pages /\ EngineWorked(last.page))
       => last.ok /\ ~last.posted

\* C9: when a write settles, a message has been published only if the
\* write was fulfilled and its effect is in the store; a rejected write has
\* published nothing; and when publishing throws, the write is fulfilled
\* all the same whenever the engine did not fail it.
C9_PublishOnlyAfterWrite ==
  [][(deliv'.done = deliv.done + 1) => PublishedInOrder']_vars

\* C9 witness: a write was fulfilled although publishing its message threw.
C9_Witness ==
  /\ last.op \in OrderWrites /\ last.bcThrows /\ last.ok /\ ~last.posted
  /\ \E j \in WithKey("orders", CollNow("orders"), last.key) :
       SameRecord(CollNow("orders")[j], last.values[1])

\* No further write of an order is made.
WritesStopped == nops = MaxOps

\* The view has a change message to receive, or a re-read pending that it
\* started after the writes stopped.
Triggered ==
  /\ deliv.mounted
  /\ \/ inbox > 0
     \/ \E i \in 1..Len(deliv.queue) : deliv.queue[i].op = "load" /\ deliv.queue[i].late

\* The view shows exactly the orders the backend in use holds.
Consistent == Normalised(deliv.orders) = Normalised(CollNow("orders"))

Quiet == inbox = 0 /\ deliv.queue = <<>>

\* C10: once the writes of orders have stopped, a deliveries view that then
\* receives a change message or becomes visible again comes to rest showing
\* exactly the orders the backend holds, however its re-reads and its own
\* updates overlap, unless the engine rejected its last re-read.
C10_EventuallyConsistent ==
  (WritesStopped /\ Triggered) ~> (Quiet /\ (Consistent \/ deliv.readFailed))

\* C10 witness: the writes have stopped, the view shows other orders than
\* the store holds, and a re-read started since is pending behind an update
\* of the view's own.
C10_Witness ==
  /\ WritesStopped /\ Triggered /\ ~Consistent
  /\ \E i, j \in 1..Len(deliv.queue) :
       i < j /\ deliv.queue[i].op # "load" /\ deliv.queue[j].op = "load" /\ deliv.queue[j].late


(***************************************************************************)
(* The upgrade handler of the database (specification SpecUpgrade).  Both  *)
(* pages open 'cakeDB' with the same onupgradeneeded handler.              *)
(*   idb.objectStoreNames   the object stores of the database on disk      *)
(*   idb.indexNames         the indexes of its 'orders' store              *)
(*   home.origin            the database as an older version left it       *)
(*   home.upgrades          how many times the handler has run             *)
(*   home.page              the page whose open ran it last                *)
(***************************************************************************)
OrderIndexes == {"deliveryDate", "status"}

Schemas ==
  {[objectStoreNames |-> names, indexNames |-> indexes] :
     names \in SUBSET StoreName, indexes \in SUBSET OrderIndexes}

UpgradeInit ==
  /\ EnvInit
  /\ isBrowser /\ hasIndexedDB
  /\ hasBC = FALSE
  /\ idb \in {d \in Schemas : "orders" \notin d.objectStoreNames => d.indexNames = {}}
  /\ ls = EmptyLs
  /\ home = [origin |-> idb, upgrades |-> 0, page |-> "none"]
  /\ twin = 0
  /\ deliv = 0

\* request.onupgradeneeded
onupgradeneeded(db) ==
  LET withFlavors == IF "flavors" \notin db.objectStoreNames
                     THEN [db EXCEPT !.objectStoreNames = @ \cup {"flavors"}] ELSE db
      withClients == IF "clients" \notin withFlavors.objectStoreNames
                     THEN [withFlavors EXCEPT !.objectStoreNames = @ \cup {"clients"}]
                     ELSE withFlavors
  IN IF "orders" \notin withClients.objectStoreNames
     THEN [withClients EXCEPT !.objectStoreNames = @ \cup {"orders"},
                              !.indexNames = {"deliveryDate", "status"}]
     ELSE withClients

\* An open by `page` that fires onupgradeneeded.
Upgrade(page) ==
  /\ home.upgrades < MaxUpgrades
  /\ idb' = onupgradeneeded(idb)
  /\ home' = [home EXCEPT !.upgrades = @ + 1, !.page = page]
  /\ UNCHANGED <<isBrowser, hasIndexedDB, hasBC, dbPromise, ls, inbox, twin, deliv, last, nops>>

UpgradeNext == \E page \in Pages : Upgrade(page)

SpecUpgrade == UpgradeInit /\ [][UpgradeNext]_vars

\* C23 (as claimed): once the handler has run, the three object stores
\* exist and 'orders' has the deliveryDate and the status index; a further
\* run leaves the database as it is.
C23_UpgradeCompletesSchema ==
  home.upgrades >= 1
  => /\ idb.objectStoreNames = StoreName
     /\ idb.indexNames = OrderIndexes
     /\ onupgradeneeded(idb) = idb

\* What the handler does bring about: the three object stores exist, the
\* stores and indexes found are kept, and a further run changes nothing.
UpgradeCreatesStores ==
  home.upgrades >= 1
  => /\ idb.objectStoreNames = StoreName
     /\ home.origin.indexNames \subseteq idb.indexNames
     /\ onupgradeneeded(idb) = idb


(***************************************************************************)
(* The database handle closed by a version change (specification           *)
(* SpecClose).  Another context opens 'cakeDB' at a higher version; the    *)
(* engine fires versionchange on this page's connection and the page's     *)
(* handler closes it.  dbPromise stays fulfilled with the closed handle.   *)
(*   home.closed    db.close() has been called                             *)
(*   home.waiting   the calls suspended at `await getDB()`                 *)
(*   home.running   the calls whose transaction is active                  *)
(*   home.hung      the calls whose promise nothing will settle            *)
(*   home.settled   the calls that have settled                            *)
(* A call is [id, op, store, key, values, afterClose].                     *)
(***************************************************************************)
CloseInit ==
  /\ EnvInit
  /\ isBrowser /\ hasIndexedDB
  /\ hasBC = FALSE
  /\ idb = SeedIdb /\ ls = EmptyLs
  /\ home = [closed |-> FALSE, waiting |-> <<>>, running |-> <<>>, hung |-> {}, settled |-> {}]
  /\ twin = 0
  /\ deliv = 0

\* A variant of onTransactionThrow: the catch of idbGetAll ignores the error.
onTransactionThrowIgnored(op) == IF op = "getAll" THEN "ignore" ELSE "reject"

\* db.transaction throws (InvalidStateError on a closed connection) inside
\* the executor of the returned promise: idbGetAll catches and rejects, and
\* in the other helpers the throwing executor rejects the promise.
onTransactionThrow(op) == "reject"

\* The result of a call rejected before it touched a store.
Thrown == [ok |-> FALSE, ret |-> <<>>]

Settled(call, ok) == [id |-> call.id, ok |-> ok, afterClose |-> call.afterClose]

\* The page calls an adapter operation: getDB, then `await`.
CallAdapter(op, store, value) ==
  /\ nops < MaxOps
  /\ LET values == IF op = "bulkPut" THEN SeedRecords[store] \o <<value>> ELSE <<value>>
         call == [id |-> nops + 1, op |-> op, store |-> store, values |-> values,
                  key |-> getKeyValue(store, values[1]), afterClose |-> home.closed]
     IN /\ dbPromise' = IF opensDatabase(dbPromise["home"])
                        THEN [dbPromise EXCEPT !["home"] = "pending"] ELSE dbPromise
        /\ home' = [home EXCEPT !.waiting = Append(@, call)]
  /\ nops' = nops + 1
  /\ UNCHANGED <<isBrowser, hasIndexedDB, hasBC, idb, ls, inbox, twin, deliv, last>>

\* db.onversionchange = () => db.close()
VersionChange ==
  /\ dbPromise["home"] = "resolved" /\ ~home.closed
  /\ home' = [home EXCEPT !.closed = TRUE]
  /\ UNCHANGED <<isBrowser, hasIndexedDB, hasBC, dbPromise, idb, ls, inbox, twin, deliv, last, nops>>

\* The oldest waiting call resumes after `await getDB()`: it is rejected
\* with the failed open, or db.transaction throws on the closed handle, or
\* its transaction starts.
Resume ==
  /\ home.waiting # <<>>
  /\ dbPromise["home"] \in {"resolved", "rejected"}
  /\ LET call == Head(home.waiting)
         rest == [home EXCEPT !.waiting = Tail(@)]
         rejected == /\ home' = [rest EXCEPT !.settled = @ \cup {Settled(call, FALSE)}]
                     /\ last' = Call("home", call.op, call.store, call.key, call.values,
                                     Thrown, FALSE, FALSE)
     IN IF dbPromise["home"] = "rejected" THEN rejected
        ELSE IF home.closed
        THEN IF onTransactionThrow(call.op) = "reject" THEN rejected
             ELSE /\ home' = [rest EXCEPT !.hung = @ \cup {call}]
                  /\ last' = last
        ELSE /\ home' = [rest EXCEPT !.running = Append(@, call)]
             /\ last' = last
  /\ UNCHANGED <<isBrowser, hasIndexedDB, hasBC, dbPromise, idb, ls, inbox, twin, deliv, nops>>

\* The oldest active transaction completes or aborts; a connection being
\* closed lets its transactions finish.
Finish ==
  /\ home.running # <<>>
  /\ \E fault \in BOOLEAN :
       LET call == Head(home.running)
           r == adapterCall(World("home"), call, fault)
       IN /\ idb' = r.idb
          /\ last' = Call("home", call.op, call.store, call.key, call.values, r, fault, FALSE)
          /\ home' = [home EXCEPT !.running = Tail(@),
                                  !.settled = @ \cup {Settled(call, r.ok)}]
  /\ UNCHANGED <<isBrowser, hasIndexedDB, hasBC, dbPromise, ls, inbox, twin, deliv, nops>>

CloseNext ==
  \/ \E op \in AdapterOps, store \in StoreName : CallAdapter(op, store, SeedRecords[store][1])
  \/ OpenSuccess
  \/ OpenError
  \/ VersionChange
  \/ Resume
  \/ Finish

SpecClose == CloseInit /\ [][CloseNext]_vars

\* The event loop resumes a call whose awaited promise has settled, and the
\* engine finishes an active transaction.
SpecCloseLive == SpecClose /\ WF_vars(Resume) /\ WF_vars(Finish)

\* The promise of call `id` has not settled.
Pending(id) ==
  \/ \E i \in 1..Len(home.waiting) : home.waiting[i].id = id
  \/ \E i \in 1..Len(home.running) : home.running[i].id = id
  \/ \E call \in home.hung : call.id = id

\* C24: once the handle has been closed by a version change, every call
\* that has not settled, the calls made afterwards included, settles.
C24_SettlesAfterClose ==
  \A id \in 1..(MaxOps + 1) : (home.closed /\ Pending(id)) ~> ~Pending(id)

\* C24 witness: a call made after the handle was closed has been rejected,
\* and no call is pending.
C24_Witness ==
  /\ home.closed /\ home.waiting = <<>> /\ home.running = <<>> /\ home.hung = {}
  /\ \E c \in home.settled : c.afterClose /\ ~c.ok


(***************************************************************************)
(* The events the deliveries view listens to (specification SpecListen):   *)
(* messages of any shape on the 'cake_sync' channel and visibilitychange.  *)
(*   deliv.bc        the view has subscribed to the channel                *)
(*   deliv.pending   the re-reads started and not settled                  *)
(*   deliv.loads     the number of calls of load()                         *)
(*   deliv.events    the number of events handled                          *)
(*   deliv.event     the event handled last                                *)
(*   deliv.uncaught  a handler threw                                       *)
(***************************************************************************)
\* MessageEvents as the listener sees them: no data, the message the pages
\* post, another type, no type.
MessageEvents ==
  {[kind |-> "message", hasData |-> FALSE, data |-> <<>>],
   [kind |-> "message", hasData |-> TRUE, data |-> [type |-> "orders_changed", id |-> "o1"]],
   [kind |-> "message", hasData |-> TRUE, data |-> [type |-> "flavors_changed"]],
   [kind |-> "message", hasData |-> TRUE, data |-> [id |-> "o1"]]}

VisibilityEvents ==
  {[kind |-> "visibilitychange", visibilityState |-> v] : v \in {"visible", "hidden"}}

NoEvent == [kind |-> "none"]

ListenStart ==
  [mounted |-> FALSE, bc |-> FALSE, orders |-> <<>>, loading |-> TRUE, message |-> "none",
   readFailed |-> FALSE, pending |-> 0, loads |-> 0, events |-> 0, event |-> NoEvent,
   uncaught |-> FALSE]

ListenInit ==
  /\ EnvInit
  /\ isBrowser
  /\ hasBC \in BOOLEAN
  /\ StoresInit
  /\ deliv = ListenStart
  /\ home = 0
  /\ twin = 0

\* A variant of onmessage that reads ev.data.type without optional chaining.
onmessageUnguarded(ev) ==
  IF ~ev.hasData THEN "throws"
  ELSE IF Field(ev.data, "type") = "orders_changed" THEN "load" ELSE "nothing"

\* bc.onmessage: if (ev?.data?.type === 'orders_changed') load()
onmessage(ev) ==
  IF ev.hasData /\ Field(ev.data, "type") = "orders_changed" THEN "load" ELSE "nothing"

\* onVisibility: if (document.visibilityState === 'visible') load()
onVisibility(ev) == IF ev.visibilityState = "visible" THEN "load" ELSE "nothing"

\* load() called in state d: setLoading(true) and the awaited read, which
\* has settled on localStorage (or after a failed open) when the next event
\* is handled.
load(d) ==
  LET started == [d EXCEPT !.loading = TRUE, !.loads = @ + 1]
  IN IF ~hasIndexedDB \/ dbPromise["deliv"] = "rejected"
     THEN \E fault \in BOOLEAN :
            /\ deliv' = loadDone(started, storageGetAll(World("deliv"), TRUE, fault))
            /\ dbPromise' = dbPromise
     ELSE /\ deliv' = [started EXCEPT !.pending = @ + 1]
          /\ dbPromise' = IF dbPromise["deliv"] = "null"
                          THEN [dbPromise EXCEPT !["deliv"] = "pending"] ELSE dbPromise

\* The mount effect: load(), then the subscriptions; subscribing is given
\* up when BroadcastChannel is missing or its constructor throws.
MountView ==
  /\ ~deliv.mounted
  /\ \E bcThrows \in (IF hasBC THEN BOOLEAN ELSE {FALSE}) :
       load([deliv EXCEPT !.mounted = TRUE, !.bc = hasBC /\ ~bcThrows])
  /\ UNCHANGED <<isBrowser, hasIndexedDB, hasBC, idb, ls, inbox, twin, home, last, nops>>

\* What a handler's outcome does to the view.
Handle(d, outcome) ==
  IF outcome = "load" THEN load(d)
  ELSE /\ deliv' = [d EXCEPT !.uncaught = @ \/ outcome = "throws"]
       /\ dbPromise' = dbPromise

\* A message arrives on the channel the view subscribed to.
Message(ev) ==
  /\ deliv.mounted /\ deliv.bc /\ deliv.events < MaxEvents
  /\ Handle([deliv EXCEPT !.events = @ + 1, !.event = ev], onmessage(ev))
  /\ UNCHANGED <<isBrowser, hasIndexedDB, hasBC, idb, ls, inbox, twin, home, last, nops>>

\* The document's visibility changes.
VisibilityChange(ev) ==
  /\ deliv.mounted /\ deliv.events < MaxEvents
  /\ Handle([deliv EXCEPT !.events = @ + 1, !.event = ev], onVisibility(ev))
  /\ UNCHANGED <<isBrowser, hasIndexedDB, hasBC, idb, ls, inbox, twin, home, last, nops>>

\* The open request of the view's first read settles.
OpenSettles ==
  /\ dbPromise["deliv"] = "pending"
  /\ \E openOk \in BOOLEAN :
       dbPromise' = [dbPromise EXCEPT !["deliv"] = IF openOk THEN "resolved" ELSE "rejected"]
  /\ UNCHANGED <<isBrowser, hasIndexedDB, hasBC, idb, ls, inbox, twin, home, deliv, last, nops>>

\* The oldest re-read in flight settles.
LoadSettles ==
  /\ deliv.pending > 0 /\ dbPromise["deliv"] \in {"resolved", "rejected"}
  /\ \E fault \in BOOLEAN :
       deliv' = loadDone([deliv EXCEPT !.pending = @ - 1],
                         storageGetAll(World("deliv"), TRUE, fault))
  /\ UNCHANGED <<isBrowser, hasIndexedDB, hasBC, dbPromise, idb, ls, inbox, twin, home, last, nops>>

ListenNext ==
  \/ MountView
  \/ \E ev \in MessageEvents : Message(ev)
  \/ \E ev \in VisibilityEvents : VisibilityChange(ev)
  \/ OpenSettles
  \/ LoadSettles

SpecListen == ListenInit /\ [][ListenNext]_vars

\* The events that ask for a re-read.
AsksReread(ev) ==
  \/ ev.kind = "message" /\ ev.hasData /\ Field(ev.data, "type") = "orders_changed"
  \/ ev.kind = "visibilitychange" /\ ev.visibilityState = "visible"

\* C25: handling an event starts one re-read when the event is an
\* 'orders_changed' message or the document becoming visible, and none
\* otherwise; no handler throws, whatever the shape of the message.
C25_RereadOnChangeOrVisible ==
  [][deliv'.events = deliv.events + 1
     => /\ AsksReread(deliv'.event) => deliv'.loads = deliv.loads + 1
        /\ ~AsksReread(deliv'.event) => deliv'.loads = deliv.loads
        /\ ~deliv'.uncaught]_vars

\* C25 witness: a message without data was handled last and started no
\* re-read, after an event that started one.
C25_Witness ==
  /\ deliv.events >= 2 /\ deliv.loads = 2 /\ ~deliv.uncaught
  /\ deliv.event.kind = "message" /\ ~deliv.event.hasData


(***************************************************************************)
(* The localStorage branch of put and delete, statement by statement       *)
(* (specification SpecFlat).  The page calls the adapter without awaiting  *)
(* the promises.  An async function runs on the caller's stack up to its   *)
(* first await, and no other code of the context runs meanwhile.           *)
(*   home.calls    the calls made: [op, store, key, value, pc, current,    *)
(*                 ok]; pc: "called", "read" (current holds the parsed     *)
(*                 array), "done"                                          *)
(*   home.running  the call whose code is on the stack, 0 for none         *)
(*   home.origin   localStorage as the session found it                    *)
(***************************************************************************)
FlatInit ==
  /\ EnvInit
  /\ isBrowser /\ ~hasIndexedDB
  /\ hasBC = FALSE
  /\ StoresInit
  /\ home = [origin |-> ls, calls |-> <<>>, running |-> 0]
  /\ twin = 0
  /\ deliv = 0

\* A variant of awaits: the function awaits between its read and its write.
awaitsAfterRead(op) == {"read"}

\* The positions at which the localStorage branch of `op` awaits: none
\* between readFromLocalStorage and setItem.
awaits(op) == {}

\* Control after call `id` reached `pc`: the function goes on, unless it
\* awaits there or has returned.
Then(id, op, pc) == IF pc = "done" \/ pc \in awaits(op) THEN 0 ELSE id

\* storage.put(store, value) or storage.delete(store, key) is called; the
\* promise is not awaited.
CallFlat(op, store, value) ==
  /\ Len(home.calls) < MaxOps
  /\ home.running = 0
  /\ home' = [home EXCEPT
                !.calls = Append(@, [op |-> op, store |-> store, value |-> value,
                                     key |-> getKeyValue(store, value), pc |-> "called",
                                     current |-> <<>>, ok |-> TRUE]),
                !.running = Len(home.calls) + 1]
  /\ nops' = nops + 1
  /\ UNCHANGED <<isBrowser, hasIndexedDB, hasBC, dbPromise, idb, ls, inbox, twin, deliv, last>>

\* The code of call `id` may run: it is on the stack, or the stack is empty
\* and the call is suspended.
MayRun(id) ==
  /\ id \in 1..Len(home.calls)
  /\ home.running = id \/ (home.running = 0 /\ home.calls[id].pc # "done")

\* const current = readFromLocalStorage(store)
ReadCurrent(id) ==
  /\ MayRun(id) /\ home.calls[id].pc = "called"
  /\ home' = [home EXCEPT
                !.calls[id].pc = "read",
                !.calls[id].current = readFromLocalStorage(World("home"), home.calls[id].store),
                !.running = Then(id, home.calls[id].op, "read")]
  /\ UNCHANGED <<isBrowser, hasIndexedDB, hasBC, dbPromise, idb, ls, inbox, twin, deliv, last, nops>>

\* The array is changed and written: window.localStorage.setItem(...).
WriteBack(id) ==
  /\ MayRun(id) /\ home.calls[id].pc = "read"
  /\ \E fault \in BOOLEAN :
       LET call == home.calls[id]
           next == IF call.op = "put" THEN upsertArray(call.store, call.current, call.value)
                   ELSE filterArray(call.store, call.current, call.key)
           r == setItem(World("home"), call.store, next, fault)
       IN /\ ls' = r.ls
          /\ home' = [home EXCEPT !.calls[id].pc = "done", !.calls[id].ok = r.ok,
                                  !.running = 0]
          /\ last' = Call("home", call.op, call.store, call.key, <<call.value>>, r, fault, FALSE)
  /\ UNCHANGED <<isBrowser, hasIndexedDB, hasBC, dbPromise, idb, inbox, twin, deliv, nops>>

FlatNext ==
  \/ \E op \in {"put", "delete"}, store \in StoreName : \E value \in Records(store) :
       CallFlat(op, store, value)
  \/ \E id \in 1..MaxOps : ReadCurrent(id)
  \/ \E id \in 1..MaxOps : WriteBack(id)

SpecFlat == FlatInit /\ [][FlatNext]_vars

\* The collection after the fulfilled calls of `calls` on `store`, made one
\* after the other.
RECURSIVE ApplyCalls(_, _, _)
ApplyCalls(store, coll, calls) ==
  IF calls = <<>> THEN coll
  ELSE LET call == Head(calls)
           next == IF call.store # store \/ call.pc # "done" \/ ~call.ok THEN coll
                   ELSE IF call.op = "put" THEN JSONArray(upsertArray(store, coll, call.value))
                   ELSE JSONArray(filterArray(store, coll, call.key))
       IN ApplyCalls(store, next, Tail(calls))

\* C26: on localStorage no write is lost: whenever no code of the page is
\* running, each collection is what the fulfilled puts and deletes made so
\* far give when applied one after the other, although none was awaited.
C26_NoWriteLost ==
  home.running = 0
  => \A store \in StoreName :
       readFromLocalStorage(World("home"), store)
         = ApplyCalls(store, readFromLocalStorage([World("home") EXCEPT !.ls = home.origin], store),
                      home.calls)

\* C26 witness: two puts of distinct keys to one kind, the second called
\* without awaiting the first, are both in the collection.
C26_Witness ==
  /\ home.running = 0 /\ Len(home.calls) = 2
  /\ \A i \in 1..2 : home.calls[i].op = "put" /\ home.calls[i].ok /\ home.calls[i].pc = "done"
  /\ home.calls[1].store = home.calls[2].store
  /\ home.calls[1].key # home.calls[2].key
  /\ \A i \in 1..2 :
       \E j \in WithKey(home.calls[i].store, CollNow(home.calls[i].store), home.calls[i].key) :
         SameRecord(CollNow(home.calls[i].store)[j], home.calls[i].value)


(***************************************************************************)
(* The deliveries view next to a second deliveries view that changes the   *)
(* date of an order (specification SpecStale): the steps of SpecSync and   *)
(* updateDate made in another tab.                                         *)
(***************************************************************************)
\* updateDate of a second deliveries view, in another tab, on an order it
\* has just loaded and lists under its selected day; its database is open.
updateDateElsewhere(id, newDate) ==
  /\ nops < MaxOps
  /\ \E o \in Range(selectedOrders(CollNow("orders"), selectedDate)) : o.id = id
  /\ \E fault \in BOOLEAN, bcThrows \in (IF hasBC /\ ~hasIndexedDB THEN BOOLEAN ELSE {FALSE}) :
       LET updated == spread(find(CollNow("orders"), id), "deliveryDate",
                             IF newDate = "" THEN Undefined ELSE newDate)
           r == storagePut([World("deliv") EXCEPT !.db = IF hasIndexedDB THEN "resolved" ELSE "null"],
                           updated, TRUE, fault, hasBC, bcThrows)
       IN /\ idb' = r.idb
          /\ ls' = r.ls
          /\ inbox' = IF r.posted /\ deliv.mounted THEN inbox + 1 ELSE inbox
          /\ last' = [Call("elsewhere", "updateDate", "orders", id, <<updated>>, r, fault, r.posted)
                        EXCEPT !.bcThrows = bcThrows]
          /\ deliv' = [deliv EXCEPT !.done = @ + 1]
  /\ nops' = nops + 1
  /\ UNCHANGED <<isBrowser, hasIndexedDB, hasBC, dbPromise, twin, home>>

StaleNext ==
  \/ SyncNext
  \/ \E id \in OrderIds, newDate \in Dates \cup {""} : updateDateElsewhere(id, newDate)

SpecStale == SyncInit /\ [][StaleNext]_vars

\* C27 (as claimed), on localStorage, where updateStatus has settled when
\* it returns: a fulfilled updateStatus(id, s) on a stored order leaves the
\* stored order as it was just before the call but for its status, and
\* every other order as it was, whatever the view itself holds.
C27_StatusOnlyChange ==
  [][(/\ nops' = nops + 1 /\ ~hasIndexedDB
      /\ last'.page = "deliv" /\ last'.op = "updateStatus" /\ last'.ok
      /\ WithKey("orders", CollNow("orders"), last'.key) # {})
     => LET before == CollNow("orders")
            after == CollNow("orders")'
        IN /\ Len(after) = Len(before)
           /\ \A i \in 1..Len(before) :
                IF before[i].id = last'.key
                THEN SameRecord(after[i], spread(before[i], "status", last'.values[1].status))
                ELSE after[i] = before[i]]_vars

====
